---- MODULE Spec2Model ----
(***************************************************************************)
(* Model of the arabic-ocr repository: the folder recognizer (ocrImages),  *)
(* the batch orchestrator (batchProcessPdfs), the retention cleaner        *)
(* (FileCleaner) and the web upload pipeline that shares the temp area     *)
(* with the cleaner.                                                       *)
(*                                                                         *)
(* File names and texts are sequences of one-character strings, so that    *)
(* extname, toLowerCase, startsWith, sort, trim and replace are computed   *)
(* the way the JavaScript computes them.  Times are in hours: every time   *)
(* the cleaner compares is a multiple of 60 * 60 * 1000 ms in the model.   *)
(***************************************************************************)
EXTENDS Integers, Sequences, FiniteSets, TLC

VARIABLES
  \* ---- ocrImages (cli/pdf-to-text.js, cli/ocr-images.js)
  folder,        \* the images folder: whether it exists, the file names in it
  pageSeparator, \* options.pageSeparator, a template
  files,         \* const files: filtered and sorted names
  idx,           \* the loop variable i
  allText,       \* let allText
  worker,        \* the Tesseract worker: "none", "active", "terminated"
  ocrPc,         \* where ocrImages stands
  outFile,       \* outputFile: whether it was written, and its content
  recog,         \* what worker.recognize answered for files[1..idx], in order
  ocrErr,        \* message of the error ocrImages threw
  \* ---- batchProcessPdfs (cli/batch-pdf-to-text.js)
  input,         \* inputPath: what it names on disk
  btime,         \* Date.now() of the batch run, in tenths of a second
  pdfFiles,      \* let pdfFiles: the resolved documents
  concurrent,    \* options.concurrent
  bi,            \* the loop variable i of the chunk loop
  batch,         \* const batch: indices of the documents of the current chunk
  docState,      \* per document: where its async callback stands
  startTime,     \* per document: const startTime
  thrown,        \* per document: message convertPdfToText threw, NoError if none
  session,       \* per document, the Tesseract worker of its pipeline
  batchErr,      \* what batchProcessPdfs has thrown, if it has
  results,       \* const results
  errors,        \* const errors
  completed,     \* let completed
  summaryWrites, \* how often the summary file was written
  summary,       \* the summary file: whether it exists, and its content
  batchPc,       \* where batchProcessPdfs stands
  \* ---- FileCleaner (cli/file-cleaner.js) and the storage areas
  now,           \* Date.now(), in hours
  fs,            \* per area: whether its directory exists, and its entries
  options,       \* this.options
  stats,         \* this.stats
  cleanPc,       \* where runCleanup stands: "idle", "running"
  area,          \* per area: the state of its cleanDirectory call
  runs,          \* the runCleanup calls so far: what each found and returned
  \* ---- POST /upload pipeline (server.js, convertPdfToText)
  pipe,          \* the state of one upload's convertPdfToText call
  \* ---- convertPdfToText (cli/pdf-to-text.js) on its own
  conv,          \* one call: its options, its images folder, where it stands
  \* ---- the pdf-to-images tool and the convertPdfToImages of pdf-to-text.js
  img,           \* one call: the results of the rasterizer, the pages saved
  \* ---- the file-cleaner tool (main of cli/file-cleaner.js)
  cli,           \* its --report flag, the usage it has read, its exit code
  \* ---- two cleaners on one directory (cleanDirectory of cli/file-cleaner.js)
  overlap,       \* the directory and where each of the two calls stands
  \* ---- the results of the uploads (global.results of server.js)
  web            \* the results, the timers, the clock, the last download

ocrVars == <<folder, pageSeparator, files, idx, allText, worker, ocrPc, outFile,
             recog, ocrErr>>
batchVars == <<input, btime, pdfFiles, concurrent, bi, batch, docState, startTime,
               thrown, session, batchErr,
               results, errors, completed, summaryWrites, summary, batchPc>>
cleanVars == <<now, fs, options, stats, cleanPc, area, runs>>
pipeVars == <<pipe>>
convVars == <<conv>>
toolVars == <<img, cli, overlap, web>>
vars == <<ocrVars, batchVars, cleanVars, pipeVars, convVars, toolVars>>

NoFolder == [exists |-> FALSE, entries |-> {}]
Folder(S) == [exists |-> TRUE, entries |-> S]
NoFile == [written |-> FALSE, text |-> <<>>]
Written(text) == [written |-> TRUE, text |-> text]
NoError == "NoError"

(***************************************************************************)
(* Strings                                                                 *)
(***************************************************************************)
\* UTF-16 code units of the characters the model uses (String.prototype.sort
\* and < compare code units).
Code ==
  (" " :> 32) @@ ("." :> 46) @@ ("0" :> 48) @@ ("1" :> 49) @@ ("2" :> 50) @@
  ("3" :> 51) @@ ("4" :> 52) @@ ("5" :> 53) @@ ("6" :> 54) @@ ("7" :> 55) @@
  ("8" :> 56) @@ ("9" :> 57) @@ ("D" :> 68) @@ ("F" :> 70) @@ ("G" :> 71) @@
  ("N" :> 78) @@ ("P" :> 80) @@ ("_" :> 95) @@ ("a" :> 97) @@ ("b" :> 98) @@
  ("c" :> 99) @@ ("d" :> 100) @@ ("e" :> 101) @@ ("f" :> 102) @@
  ("g" :> 103) @@ ("i" :> 105) @@ ("j" :> 106) @@ ("m" :> 109) @@
  ("n" :> 110) @@ ("o" :> 111) @@ ("p" :> 112) @@ ("s" :> 115) @@
  ("t" :> 116) @@ ("x" :> 120)

\* String.prototype.toLowerCase on one character
LowerChar(c) ==
  CASE c = "D" -> "d" [] c = "F" -> "f" [] c = "G" -> "g" [] c = "N" -> "n"
    [] c = "P" -> "p" [] OTHER -> c

ToLowerCase(s) == [k \in 1..Len(s) |-> LowerChar(s[k])]

\* path.extname: from the last "." to the end; "" when there is none or when
\* the only "." is the first character
ExtName(s) ==
  LET dots == {k \in 1..Len(s) : s[k] = "."}
  IN  IF dots = {} THEN <<>>
      ELSE LET last == CHOOSE k \in dots : \A j \in dots : j <= k
           IN  IF last = 1 THEN <<>> ELSE SubSeq(s, last, Len(s))

\* path.basename(p, ext) on a name without directories: ext is cut off the end
\* when the name ends with exactly it (case matters) and is longer than it
Basename(s, ext) ==
  IF Len(s) > Len(ext) /\ SubSeq(s, Len(s) - Len(ext) + 1, Len(s)) = ext
    THEN SubSeq(s, 1, Len(s) - Len(ext))
    ELSE s

StartsWith(s, p) == Len(s) >= Len(p) /\ SubSeq(s, 1, Len(p)) = p

\* s < t as JavaScript compares strings: by code unit, a proper prefix first
RECURSIVE LexLess(_, _)
LexLess(s, t) ==
  IF t = <<>> THEN FALSE
  ELSE IF s = <<>> THEN TRUE
  ELSE IF Code[Head(s)] # Code[Head(t)] THEN Code[Head(s)] < Code[Head(t)]
  ELSE LexLess(Tail(s), Tail(t))

\* Array.prototype.sort() without a comparator, on distinct strings
RECURSIVE SortNames(_)
SortNames(S) ==
  IF S = {} THEN <<>>
  ELSE LET m == CHOOSE x \in S : \A y \in S \ {x} : LexLess(x, y)
       IN  <<m>> \o SortNames(S \ {m})

\* String.prototype.trim: white space off both ends
RECURSIVE TrimStart(_)
TrimStart(s) ==
  IF s # <<>> /\ Head(s) = " " THEN TrimStart(Tail(s)) ELSE s

RECURSIVE TrimEnd(_)
TrimEnd(s) ==
  IF s # <<>> /\ s[Len(s)] = " " THEN TrimEnd(SubSeq(s, 1, Len(s) - 1)) ELSE s

Trim(s) == TrimEnd(TrimStart(s))

\* Number.prototype.toString for n >= 0: the decimal digits
Digit(d) == CASE d = 0 -> "0" [] d = 1 -> "1" [] d = 2 -> "2" [] d = 3 -> "3"
              [] d = 4 -> "4" [] d = 5 -> "5" [] d = 6 -> "6" [] d = 7 -> "7"
              [] d = 8 -> "8" [] d = 9 -> "9"

RECURSIVE NumberToString(_)
NumberToString(n) ==
  IF n < 10 THEN <<Digit(n)>> ELSE NumberToString(n \div 10) \o <<Digit(n % 10)>>

\* String.prototype.replace(pattern, value) with a string pattern: the first
\* occurrence only.  A template is a sequence of pieces, the placeholder
\* "{pageNumber}" being one piece.
Placeholder == "{pageNumber}"

RECURSIVE Replace(_, _)
Replace(template, value) ==
  IF template = <<>> THEN <<>>
  ELSE IF Head(template) = Placeholder THEN value \o Tail(template)
  ELSE <<Head(template)>> \o Replace(Tail(template), value)

\* String.prototype.padStart(targetLength, padString) with a one-character
\* padString: nothing is cut when the string is longer already
RECURSIVE PadStart(_, _, _)
PadStart(s, targetLength, c) ==
  IF Len(s) >= targetLength THEN s ELSE PadStart(<<c>> \o s, targetLength, c)

(***************************************************************************)
(* ocrImages                                                               *)
(***************************************************************************)
PagePrefix == <<"p", "a", "g", "e", "_">>
ImageExtensions ==
  { <<".", "p", "n", "g">>, <<".", "j", "p", "g">>, <<".", "j", "p", "e", "g">>,
    <<".", "t", "i", "f", "f">>, <<".", "b", "m", "p">> }
DefaultPageSeparator == <<"\n\n=== PAGE ", Placeholder, " ===\n\n">>
ErrorMarker(message) ==
  <<"[ERROR: Could not process this page - ", message, "]", "\n">>

\* lines 61-70 (convertPdfToImages): the name the image of page pageNumber
\* is saved under (imageFormat "png")
PageName(pageNumber) ==
  PagePrefix \o PadStart(NumberToString(pageNumber), 3, "0") \o
    <<".", "p", "n", "g">>

\* The names an images folder of the model may hold: pages 1, 2 and 10,
\* other files, and pages 999 and 1000.
FolderUniverse ==
  { PagePrefix \o <<"0", "0", "1", ".", "p", "n", "g">>,
    PagePrefix \o <<"0", "0", "2", ".", "p", "n", "g">>,
    PagePrefix \o <<"0", "1", "0", ".", "p", "n", "g">>,
    PagePrefix \o <<"0", "0", "2", ".", "P", "N", "G">>,
    PagePrefix \o <<"0", "0", "3", ".", "t", "x", "t">>,
    <<"i", "m", "g", "_", "0", "0", "1", ".", "p", "n", "g">>,
    PageName(999), PageName(1000) }
MaxFiles == 3
\* What worker.recognize may answer: a text, or an error with a message.
RawTexts == { <<>>, <<"a">>, <<" ", "a", " ">>, <<" ", "b">> }
RecognizeErrors == { "Error attempting to read image.", "Worker crashed" }
RecognizeOutcomes ==
  [ok : {TRUE}, text : RawTexts] \cup [ok : {FALSE}, message : RecognizeErrors]
PageSeparators == { DefaultPageSeparator, <<"--", Placeholder, "--">> }

\* lines 114-121: readdirSync . filter(extension) . filter(prefix) . sort()
ImageFiles(dir, pagePrefix) ==
  SortNames({ f \in dir : /\ ToLowerCase(ExtName(f)) \in ImageExtensions
                          /\ StartsWith(f, pagePrefix) })

\* the text of a page goes into its block as recognized, not trimmed
PageBlock_untrimmed(template, pageNumber, outcome) ==
  Replace(template, NumberToString(pageNumber)) \o
    (IF outcome.ok THEN outcome.text \o <<"\n">>
     ELSE ErrorMarker(outcome.message))
\* lines 150-151 and 156-159: what one page adds to allText
PageBlock(template, pageNumber, outcome) ==
  Replace(template, NumberToString(pageNumber)) \o
    (IF outcome.ok THEN Trim(outcome.text) \o <<"\n">>
     ELSE ErrorMarker(outcome.message))

OcrInit ==
  /\ folder \in {NoFolder} \cup
                {Folder(S) : S \in {T \in SUBSET FolderUniverse : Cardinality(T) <= MaxFiles}}
  /\ pageSeparator \in PageSeparators
  /\ files = <<>>
  /\ idx = 0
  /\ allText = <<>>
  /\ worker = "none"
  /\ ocrPc = "start"
  /\ outFile = NoFile
  /\ recog = <<>>
  /\ ocrErr = NoError

OcrIdle ==
  /\ folder = NoFolder
  /\ pageSeparator = DefaultPageSeparator
  /\ files = <<>>
  /\ idx = 0
  /\ allText = <<>>
  /\ worker = "none"
  /\ ocrPc = "off"
  /\ outFile = NoFile
  /\ recog = <<>>
  /\ ocrErr = NoError

OcrThrow(message) ==
  /\ ocrPc' = "thrown"
  /\ ocrErr' = message

\* lines 102-105: the folder does not exist
OcrFolderMissing ==
  /\ ocrPc = "start"
  /\ ~folder.exists
  /\ OcrThrow("Images folder not found")
  /\ UNCHANGED <<folder, pageSeparator, files, idx, allText, worker, outFile, recog>>

\* the worker is asked for whatever the list holds
OcrListFiles_workerFirst ==
  /\ ocrPc = "start"
  /\ folder.exists
  /\ files' = ImageFiles(folder.entries, PagePrefix)
  /\ ocrPc' = "createWorker"
  /\ UNCHANGED <<folder, pageSeparator, idx, allText, worker, outFile, recog, ocrErr>>

\* lines 112-134: list the files; throw when none passes, else ask for a worker
OcrListFiles ==
  /\ ocrPc = "start"
  /\ folder.exists
  /\ files' = ImageFiles(folder.entries, PagePrefix)
  /\ IF files' = <<>>
       THEN OcrThrow("No image files found")
       ELSE ocrPc' = "createWorker" /\ UNCHANGED ocrErr
  /\ UNCHANGED <<folder, pageSeparator, idx, allText, worker, outFile, recog>>

\* line 134: Tesseract.createWorker resolves, the loop starts with i = 0
CreateWorker ==
  /\ ocrPc = "createWorker"
  /\ worker' = "active"
  /\ idx' = 0
  /\ ocrPc' = "loop"
  /\ UNCHANGED <<folder, pageSeparator, files, allText, outFile, recog, ocrErr>>

\* line 134: Tesseract.createWorker rejects; lines 173-176 rethrow
CreateWorkerFails ==
  /\ ocrPc = "createWorker"
  /\ OcrThrow("createWorker failed")
  /\ UNCHANGED <<folder, pageSeparator, files, idx, allText, worker, outFile, recog>>

\* a page that fails recognition ends the run with its error
RecognizePage_abort ==
  /\ ocrPc = "loop"
  /\ idx < Len(files)
  /\ \E outcome \in RecognizeOutcomes :
       IF outcome.ok
         THEN /\ allText' = allText \o PageBlock(pageSeparator, idx + 1, outcome)
              /\ recog' = Append(recog, outcome)
              /\ idx' = idx + 1
              /\ ocrPc' = IF idx' < Len(files) THEN "loop" ELSE "terminate"
              /\ UNCHANGED ocrErr
         ELSE /\ OcrThrow(outcome.message)
              /\ UNCHANGED <<allText, recog, idx>>
  /\ UNCHANGED <<folder, pageSeparator, files, worker, outFile>>
\* lines 136-161: one iteration; worker.recognize resolves with a text or
\* rejects, and either way the block is appended and the loop goes on.
\* After the last page the code reaches worker.terminate() (line 164).
RecognizePage ==
  /\ ocrPc = "loop"
  /\ idx < Len(files)
  /\ \E outcome \in RecognizeOutcomes :
       /\ allText' = allText \o PageBlock(pageSeparator, idx + 1, outcome)
       /\ recog' = Append(recog, outcome)
  /\ idx' = idx + 1
  /\ ocrPc' = IF idx' < Len(files) THEN "loop" ELSE "terminate"
  /\ UNCHANGED <<folder, pageSeparator, files, worker, outFile, ocrErr>>

\* lines 164-172: the worker is terminated, the text is written, the path
\* of the output file is returned
TerminateAndWrite ==
  /\ ocrPc = "terminate"
  /\ worker' = "terminated"
  /\ outFile' = Written(allText)
  /\ ocrPc' = "returned"
  /\ UNCHANGED <<folder, pageSeparator, files, idx, allText, recog, ocrErr>>

\* the text is written before the worker is terminated: a failing write
\* leaves the worker as it is
WriteFails_beforeTerminate ==
  /\ ocrPc = "terminate"
  /\ OcrThrow("writeFileSync failed")
  /\ UNCHANGED <<folder, pageSeparator, files, idx, allText, worker, outFile, recog>>
\* line 167: writeFileSync throws (the output directory is missing, say)
WriteFails ==
  /\ ocrPc = "terminate"
  /\ worker' = "terminated"
  /\ OcrThrow("writeFileSync failed")
  /\ UNCHANGED <<folder, pageSeparator, files, idx, allText, outFile, recog>>

(***************************************************************************)
(* batchProcessPdfs                                                        *)
(***************************************************************************)
PdfExt == <<".", "p", "d", "f">>
\* The entries an input directory of the model may hold: PDFs whose
\* extension is written in small or in capital letters, one of them named
\* as another with ".pdf" added, and a file that is no PDF.
DirUniverse ==
  { <<"a", ".", "p", "d", "f">>,
    <<"b", ".", "P", "D", "F">>,
    <<"b", ".", "P", "D", "F", ".", "p", "d", "f">>,
    <<"n", "o", "t", "e", "s", ".", "t", "x", "t">> }
MaxConcurrent == 2
MaxBatchTime == 1
\* What convertPdfToText may throw.
PipelineErrors ==
  { "PDF file not found", "No image files found", "rasterizer failed" }

\* inputPath names a directory with some entries, a single file, or nothing
Inputs ==
  [kind : {"dir"}, entries : SUBSET DirUniverse] \cup
  [kind : {"file"}, name : DirUniverse] \cup
  [kind : {"missing"}]

\* every order in which readdirSync may list the set S
Listings(S) ==
  { p \in [1..Cardinality(S) -> S] : \A x \in S : \E k \in DOMAIN p : p[k] = x }

\* the extension is compared as it is written
RECURSIVE PdfsOf_caseSensitive(_)
PdfsOf_caseSensitive(listing) ==
  IF listing = <<>> THEN <<>>
  ELSE (IF ExtName(Head(listing)) = PdfExt
          THEN << [filename |-> Head(listing),
                   basename |-> Basename(Head(listing), PdfExt)] >>
          ELSE <<>>) \o PdfsOf_caseSensitive(Tail(listing))

\* lines 39-45: filter by extension, map to {fullPath, filename, basename}
RECURSIVE PdfsOf(_)
PdfsOf(listing) ==
  IF listing = <<>> THEN <<>>
  ELSE (IF ToLowerCase(ExtName(Head(listing))) = PdfExt
          THEN << [filename |-> Head(listing),
                   basename |-> Basename(Head(listing), PdfExt)] >>
          ELSE <<>>) \o PdfsOf(Tail(listing))

\* Array.prototype.slice(start, end) on an array of length len: the indices
\* (1-based) it takes; negative arguments count from the end
SliceFrom(len, k) == IF k < 0 THEN (IF len + k < 0 THEN 0 ELSE len + k)
                     ELSE (IF k > len THEN len ELSE k)
\* slice(i) in place of slice(i, i + concurrent): the chunk is all the rest
Slice_toTheEnd(len, start, end) ==
  LET from == SliceFrom(len, start)
  IN  [k \in 1..(len - from) |-> from + k]
Slice(len, start, end) ==
  LET from == SliceFrom(len, start)
      to == SliceFrom(len, end)
  IN  [k \in 1..(IF to > from THEN to - from ELSE 0) |-> from + k]

Range(f) == { f[k] : k \in DOMAIN f }

\* lines 88-91: the output text file of a document
OutputTextFile(pdf) == pdf.basename \o <<"_ocr.txt">>
\* lines 94-97: the temporary images folder of a document
TempImagesFolder(pdf) == pdf.basename \o <<"_temp_images">>

RECURSIVE SumDurations(_)
SumDurations(items) ==
  IF items = <<>> THEN 0 ELSE Head(items).duration + SumDurations(Tail(items))

\* lines 179-229: what the summary report says
generateSummary(res, errs) ==
  [ totalFiles |-> Len(res) + Len(errs),
    successful |-> Len(res),
    failed |-> Len(errs),
    totalDuration |-> SumDurations(res \o errs),
    conversions |-> [k \in 1..Len(res) |->
                       [input |-> res[k].input, output |-> res[k].output,
                        duration |-> res[k].duration]],
    failures |-> [k \in 1..Len(errs) |->
                    [input |-> errs[k].input, error |-> errs[k].error,
                     duration |-> errs[k].duration]] ]

NoSummary == [exists |-> FALSE, content |-> generateSummary(<<>>, <<>>)]

\* lines 8-25: batchProcessPdfs is called on some input
BatchCalled ==
  /\ input \in Inputs
  /\ btime = 0
  /\ pdfFiles = <<>>
  /\ bi = 0
  /\ batch = <<>>
  /\ docState = <<>>
  /\ startTime = <<>>
  /\ thrown = <<>>
  /\ session = <<>>
  /\ batchErr = NoError
  /\ results = <<>>
  /\ errors = <<>>
  /\ completed = 0
  /\ summaryWrites = 0
  /\ summary = NoSummary
  /\ batchPc = "start"

\* lines 246-254: the limits the tool passes on as they are: parseInt of
\* --concurrent is not checked, so 0 and negative numbers get through
PassedLimits == (0 - 1)..MaxConcurrent
\* how far below 0 the model follows the index of the loop of line 78
MaxRewind == 2

\* batchProcessPdfs is called with a limit of at least 1
BatchInit ==
  /\ concurrent \in 1..MaxConcurrent
  /\ BatchCalled

\* batchProcessPdfs is called with any limit the tool passes on
BatchInitUnvalidated ==
  /\ concurrent \in PassedLimits
  /\ BatchCalled

BatchIdle ==
  /\ input = [kind |-> "missing"]
  /\ concurrent = 1
  /\ btime = 0
  /\ pdfFiles = <<>>
  /\ bi = 0
  /\ batch = <<>>
  /\ docState = <<>>
  /\ startTime = <<>>
  /\ thrown = <<>>
  /\ session = <<>>
  /\ batchErr = NoError
  /\ results = <<>>
  /\ errors = <<>>
  /\ completed = 0
  /\ summaryWrites = 0
  /\ summary = NoSummary
  /\ batchPc = "off"

\* lines 79-139 up to the first await of every callback: batch.map starts the
\* callback of every document of the chunk, each takes its startTime and
\* calls convertPdfToText
LaunchChunk(i) ==
  /\ batch' = Slice(Len(pdfFiles'), i, i + concurrent)
  /\ docState' = [d \in 1..Len(pdfFiles') |->
                    IF d \in Range(batch') THEN "running"
                    ELSE IF d \in DOMAIN docState THEN docState[d] ELSE "pending"]
  /\ startTime' = [d \in 1..Len(pdfFiles') |->
                     IF d \in Range(batch') THEN btime
                     ELSE IF d \in DOMAIN startTime THEN startTime[d] ELSE 0]
  /\ session' = [d \in 1..Len(pdfFiles') |->
                   IF d \in DOMAIN session /\ d \notin Range(batch')
                     THEN session[d] ELSE "none"]

\* What batchProcessPdfs may throw before any document is started.
StatFails == "ENOENT: no such file or directory"
InvalidInput == "Input must be a PDF file or directory containing PDF files"
NoDocumentsFound == "No PDF files found in the specified location"

\* lines 35, 55-59, 61-63: statSync throws, the input is no PDF and no
\* directory, or no PDF was found; the catch of line 173 rethrows
BatchFatal ==
  /\ batchPc = "start"
  /\ \/ /\ input.kind = "missing"
        /\ batchErr' = StatFails
     \/ /\ input.kind = "file" /\ ToLowerCase(ExtName(input.name)) # PdfExt
        /\ batchErr' = InvalidInput
     \/ /\ input.kind = "dir"
        /\ \A f \in input.entries : ToLowerCase(ExtName(f)) # PdfExt
        /\ batchErr' = NoDocumentsFound
  /\ batchPc' = "thrown"
  /\ UNCHANGED <<session, input, btime, pdfFiles, concurrent, bi, batch, docState, startTime,
                 thrown, results, errors, completed, summaryWrites, summary>>

\* lines 25-79: the documents are resolved and the first chunk is launched
BatchStart ==
  /\ batchPc = "start"
  /\ \/ /\ input.kind = "dir"
        /\ \E listing \in Listings(input.entries) : pdfFiles' = PdfsOf(listing)
     \/ /\ input.kind = "file"
        /\ ToLowerCase(ExtName(input.name)) = PdfExt
        /\ pdfFiles' = << [filename |-> input.name,
                           basename |-> Basename(input.name, PdfExt)] >>
  /\ pdfFiles' # <<>>
  /\ thrown' = [d \in 1..Len(pdfFiles') |-> NoError]
  /\ bi' = 0
  /\ LaunchChunk(0)
  /\ batchPc' = "await"
  /\ UNCHANGED <<batchErr, input, btime, concurrent, results, errors, completed,
                 summaryWrites, summary>>

\* Date.now() moves on while the pipelines run
BatchTick ==
  /\ batchPc = "await"
  /\ btime < MaxBatchTime
  /\ btime' = btime + 1
  /\ UNCHANGED <<batchErr, session, input, pdfFiles, concurrent, bi, batch, docState, startTime, thrown,
                 results, errors, completed, summaryWrites, summary, batchPc>>

\* pdf-to-text.js line 134, inside convertPdfToText of document d: ocrImages
\* creates the worker of this pipeline
SessionAcquired(d) ==
  /\ docState[d] = "running"
  /\ session[d] = "none"
  /\ session' = [session EXCEPT ![d] = "active"]
  /\ UNCHANGED <<batchErr, input, btime, pdfFiles, concurrent, bi, batch, docState, startTime,
                 thrown, results, errors, completed, summaryWrites, summary, batchPc>>

\* pdf-to-text.js line 164: after the last page the worker is terminated
SessionTerminated(d) ==
  /\ docState[d] = "running"
  /\ session[d] = "active"
  /\ session' = [session EXCEPT ![d] = "terminated"]
  /\ UNCHANGED <<batchErr, input, btime, pdfFiles, concurrent, bi, batch, docState, startTime,
                 thrown, results, errors, completed, summaryWrites, summary, batchPc>>

\* convertPdfToText resolves without its worker being terminated
PipelineResolves_workerLeft(d) ==
  /\ docState[d] = "running"
  /\ session[d] # "none"
  /\ docState' = [docState EXCEPT ![d] = "resolved"]
  /\ UNCHANGED <<batchErr, session, input, btime, pdfFiles, concurrent, bi, batch, startTime, thrown,
                 results, errors, completed, summaryWrites, summary, batchPc>>
\* line 100: convertPdfToText of document d resolves with its output file,
\* which ocrImages wrote after terminating its worker
PipelineResolves(d) ==
  /\ docState[d] = "running"
  /\ session[d] = "terminated"
  /\ docState' = [docState EXCEPT ![d] = "resolved"]
  /\ UNCHANGED <<batchErr, session, input, btime, pdfFiles, concurrent, bi, batch, startTime, thrown,
                 results, errors, completed, summaryWrites, summary, batchPc>>

\* line 100: convertPdfToText of document d rejects: before ocrImages has
\* a worker, or after it has terminated it (no failure leaves ocrImages in
\* between)
PipelineRejects(d) ==
  /\ docState[d] = "running"
  /\ session[d] # "active"
  /\ \E message \in PipelineErrors : thrown' = [thrown EXCEPT ![d] = message]
  /\ docState' = [docState EXCEPT ![d] = "rejected"]
  /\ UNCHANGED <<batchErr, session, input, btime, pdfFiles, concurrent, bi, batch, startTime,
                 results, errors, completed, summaryWrites, summary, batchPc>>

\* lines 109-122: the callback goes on after the await and records the success
RecordSuccess(d) ==
  /\ docState[d] = "resolved"
  /\ completed' = completed + 1
  /\ results' = Append(results, [input |-> pdfFiles[d].filename,
                                 output |-> OutputTextFile(pdfFiles[d]),
                                 duration |-> btime - startTime[d],
                                 success |-> TRUE])
  /\ docState' = [docState EXCEPT ![d] = "recorded"]
  /\ UNCHANGED <<batchErr, session, input, btime, pdfFiles, concurrent, bi, batch, startTime, thrown,
                 errors, summaryWrites, summary, batchPc>>

\* no catch in the callback: the failure of a document rejects Promise.all
\* and ends the batch
RecordFailure_rethrow(d) ==
  /\ docState[d] = "rejected"
  /\ batchPc' = "thrown"
  /\ docState' = [docState EXCEPT ![d] = "recorded"]
  /\ UNCHANGED <<batchErr, session, input, btime, pdfFiles, concurrent, bi, batch, startTime, thrown,
                 results, errors, completed, summaryWrites, summary>>
\* lines 123-138: the catch of the callback records the failure
RecordFailure(d) ==
  /\ docState[d] = "rejected"
  /\ completed' = completed + 1
  /\ errors' = Append(errors, [input |-> pdfFiles[d].filename,
                               error |-> thrown[d],
                               duration |-> btime - startTime[d],
                               success |-> FALSE])
  /\ docState' = [docState EXCEPT ![d] = "recorded"]
  /\ UNCHANGED <<batchErr, session, input, btime, pdfFiles, concurrent, bi, batch, startTime, thrown,
                 results, summaryWrites, summary, batchPc>>

\* Promise.race in place of Promise.all: the loop goes on when one
\* document of the chunk is done
ChunkSettled_any == \E k \in DOMAIN batch : docState[batch[k]] = "recorded"
\* line 142: Promise.all(batchPromises) resolves when the callback of every
\* document of the chunk has returned
ChunkSettled == \A k \in DOMAIN batch : docState[batch[k]] = "recorded"

\* lines 142, 78-79: the chunk is over, i += concurrent, the next chunk starts
NextChunk ==
  /\ batchPc = "await"
  /\ ChunkSettled
  /\ bi + concurrent < Len(pdfFiles)
  /\ bi + concurrent >= 0 - MaxRewind
  /\ bi' = bi + concurrent
  /\ pdfFiles' = pdfFiles
  /\ LaunchChunk(bi')
  /\ UNCHANGED <<batchErr, input, btime, concurrent, thrown, results, errors, completed,
                 summaryWrites, summary, batchPc>>

\* the summary is written as soon as a chunk is over, whatever is left
WriteSummary_afterAnyChunk ==
  /\ batchPc = "await"
  /\ ChunkSettled
  /\ bi' = bi + concurrent
  /\ summary' = [exists |-> TRUE, content |-> generateSummary(results, errors)]
  /\ summaryWrites' = summaryWrites + 1
  /\ batchPc' = "returned"
  /\ UNCHANGED <<batchErr, session, input, btime, pdfFiles, concurrent, batch, docState, startTime,
                 thrown, results, errors, completed>>
\* lines 142-172: the last chunk is over, the summary is written and
\* {results, errors, summary} is returned
WriteSummary ==
  /\ batchPc = "await"
  /\ ChunkSettled
  /\ ~(bi + concurrent < Len(pdfFiles))
  /\ bi' = bi + concurrent
  /\ summary' = [exists |-> TRUE, content |-> generateSummary(results, errors)]
  /\ summaryWrites' = summaryWrites + 1
  /\ batchPc' = "returned"
  /\ UNCHANGED <<batchErr, session, input, btime, pdfFiles, concurrent, batch, docState, startTime,
                 thrown, results, errors, completed>>

(***************************************************************************)
(* FileCleaner                                                             *)
(***************************************************************************)
Areas == {"uploads", "output", "temp", "logs"}
GitKeep == <<".", "g", "i", "t", "k", "e", "e", "p">>
\* line 178: const logPattern = /\.log$/
LogSuffix == <<".", "l", "o", "g">>
NoPattern == <<>>

EndsWith(s, suffix) ==
  Len(s) >= Len(suffix) /\ SubSeq(s, Len(s) - Len(suffix) + 1, Len(s)) = suffix

\* filePattern.test(file) for the pattern /<suffix>$/
PatternTest(pattern, file) == EndsWith(file, pattern)

\* lines 10-13: the defaults of the constructor, in days (temp: in hours)
DefaultRetention ==
  [a \in Areas |-> CASE a = "uploads" -> 1 [] a = "output" -> 7
                     [] a = "temp" -> 2 [] a = "logs" -> 30]
\* lines 135, 148, 161, 174: maxAge of an area, in hours
HoursPerDay == 24
MaxAge(a, retention) ==
  IF a = "temp" THEN retention[a] ELSE retention[a] * HoursPerDay
\* no area's cleaner passes a pattern
FilePattern_none(a) == NoPattern
\* lines 138, 151, 164, 179: the pattern an area's cleaner passes
FilePattern(a) == IF a = "logs" THEN LogSuffix ELSE NoPattern

\* A retention option the caller gave, or did not give.
Absent == [given |-> FALSE, value |-> 0]
Given(v) == [given |-> TRUE, value |-> v]

\* the constructor without its `...options`: `x: options.x || default` only
ConstructorOptions_noSpread(passed) ==
  [ retention |-> [a \in Areas |->
                     IF passed.retention[a].value # 0
                       THEN passed.retention[a].value
                       ELSE DefaultRetention[a]],
    dryRun |-> passed.dryRun ]
\* lines 9-17: `x: options.x || default` followed by `...options`: the
\* spread puts back whatever the caller gave, 0 included
ConstructorOptions(passed) ==
  [ retention |-> [a \in Areas |->
                     IF passed.retention[a].given
                       THEN passed.retention[a].value
                       ELSE IF passed.retention[a].value # 0
                              THEN passed.retention[a].value
                              ELSE DefaultRetention[a]],
    dryRun |-> passed.dryRun ]

\* lines 20-27
FreshStats ==
  [ cleaned |-> [a \in Areas |-> 0], totalSizeFreed |-> 0, errors |-> <<>> ]

\* The clock starts here; the model's entries are dated relative to it.
Epoch == 2 * DefaultRetention["logs"] * HoursPerDay
MaxTick == 1
MaxRuns == 2
MaxEntries == 2

\* An entry of a directory: what stat tells of it, what it holds when it is
\* a directory, and whether the process may remove it (locked: unlink and
\* rmdir reject with EPERM).
File(name, size, mtime) ==
  [name |-> name, isDirectory |-> FALSE, size |-> size, mtime |-> mtime,
   children |-> {}, locked |-> FALSE]
Directory(name, mtime, children) ==
  [name |-> name, isDirectory |-> TRUE, size |-> 0, mtime |-> mtime,
   children |-> children, locked |-> FALSE]
Locked(e) == [e EXCEPT !.locked = TRUE]

\* The entries the areas of the model may hold at the start: in every area
\* one entry whose age equals the default threshold when the clock starts.
Boundary(a) == Epoch - MaxAge(a, DefaultRetention)
AreaUniverse ==
  [a \in Areas |->
     CASE a = "uploads" ->
            { File(GitKeep, 1, 0),
              File(<<"a", ".", "p", "d", "f">>, 5, Boundary(a)),
              Locked(File(<<"b", ".", "p", "d", "f">>, 6, 0)) }
       [] a = "output" ->
            { File(<<"a", "_", "o", "c", "r", ".", "t", "x", "t">>, 3, Boundary(a)),
              File(<<"o", "l", "d", ".", "t", "x", "t">>, 4, 0) }
       [] a = "temp" ->
            { Directory(<<"a", "_", "i", "m", "a", "g", "e", "s">>, Boundary(a),
                { File(<<"p", "1">>, 4, Boundary(a)),
                  File(<<"p", "2">>, 2, Epoch),
                  Directory(<<"s", "u", "b">>, Boundary(a),
                            { File(<<"p", "3">>, 1, Boundary(a)) }) }) }
       [] a = "logs" ->
            { File(<<"a", "p", "p", ".", "l", "o", "g">>, 2, Boundary(a)),
              File(<<"n", "o", "t", "e", "s", ".", "t", "x", "t">>, 7, 0) } ]

\* The directory of an area: missing, existing but not readable (readdir
\* rejects with EACCES), or readable with its entries.
NoDir == [exists |-> FALSE, readable |-> FALSE, entries |-> {}]
Unreadable == [exists |-> TRUE, readable |-> FALSE, entries |-> {}]
Dir(S) == [exists |-> TRUE, readable |-> TRUE, entries |-> S]

EntryCount(f) ==
  Cardinality(f["uploads"].entries) + Cardinality(f["output"].entries) +
  Cardinality(f["temp"].entries) + Cardinality(f["logs"].entries)

\* The storage at the start.  server.js creates uploads, temp and output
\* when it starts (lines 53-57) and never creates logs.
InitialStorages ==
  { f \in { [uploads |-> Dir(u), output |-> Dir(o), temp |-> Dir(t), logs |-> l] :
             u \in SUBSET AreaUniverse["uploads"],
             o \in SUBSET AreaUniverse["output"],
             t \in SUBSET AreaUniverse["temp"],
             l \in {NoDir, Unreadable} \cup
                     {Dir(S) : S \in SUBSET AreaUniverse["logs"]} } :
      EntryCount(f) <= MaxEntries }

PassedOptions ==
  { [retention |-> [a \in Areas |-> r], dryRun |-> d] :
      r \in {Absent, Given(0)}, d \in BOOLEAN }

Names(entries) == { e.name : e \in entries }
Lookup(entries, name) == CHOOSE e \in entries : e.name = name

\* lines 45-64: getDirectorySize, the sum of the sizes of the files under a
\* directory
RECURSIVE SumSizes(_)
RECURSIVE getDirectorySize(_)
SumSizes(entries) ==
  IF entries = {} THEN 0
  ELSE LET e == CHOOSE x \in entries : TRUE
       IN  (IF e.isDirectory THEN getDirectorySize(e) ELSE e.size)
             + SumSizes(entries \ {e})
getDirectorySize(dir) == SumSizes(dir.children)

NoName == <<>>
AreaIdle ==
  [ pc |-> "idle", todo |-> {}, cur |-> NoName, fileSize |-> 0,
    cleaned |-> [count |-> 0, size |-> 0] ]

\* the loop takes .gitkeep like any other name
Candidates_all(todo) == todo
\* line 87: the entries of a listing the loop does not skip at once
Candidates(todo) == { f \in todo : f # GitKeep }

\* lines 85-90: the loop takes the next name of the listing, in the order
\* readdir gave (any order), and asks for its stats; after the last name
\* cleanDirectory returns
AfterEntry(st) ==
  IF Candidates(st.todo) = {}
    THEN { [st EXCEPT !.pc = "return", !.cur = NoName, !.fileSize = 0,
                      !.todo = {}] }
    ELSE { [st EXCEPT !.pc = "stat", !.cur = f, !.fileSize = 0,
                      !.todo = st.todo \ {f}] : f \in Candidates(st.todo) }

\* lines 121-122
Counted(st) ==
  [st EXCEPT !.cleaned = [count |-> st.cleaned.count + 1,
                          size |-> st.cleaned.size + st.fileSize]]

\* an entry whose age is the threshold goes too
TooOld_atThreshold(fileAge, maxAgeMs) == fileAge >= maxAgeMs
\* line 101: the entry is old enough to go
TooOld(fileAge, maxAgeMs) == fileAge > maxAgeMs

\* the deletion is carried out in a dry run too
Deletes_always(opts) == TRUE
\* line 106: the deletion is carried out
Deletes(opts) == ~opts.dryRun

\* the area's cleaner assigns its bytes to totalSizeFreed
AreaStats_overwrite(a, st, result) ==
  [st EXCEPT !.cleaned[a] = result.count,
             !.totalSizeFreed = result.size]

\* lines 140-141, 153-154, 166-167, 181-182: the area's cleaner takes the
\* result of cleanDirectory into this.stats
AreaStats(a, st, result) ==
  [st EXCEPT !.cleaned[a] = result.count,
             !.totalSizeFreed = @ + result.size]

RECURSIVE AreasReturn(_, _, _)
AreasReturn(S, ar, st) ==
  IF S = {} THEN st
  ELSE LET a == CHOOSE x \in S : TRUE
       IN  AreasReturn(S \ {a}, ar, AreaStats(a, st, ar[a].cleaned))

\* What follows a step of the cleaners without any further input or output:
\* a cleanDirectory that has returned hands its result to its area's cleaner,
\* which takes it into this.stats and returns it (lines 138-143), and when
\* the four cleaners have returned, Promise.all resolves and runCleanup
\* returns this.stats (lines 195-221).  The record of the run keeps what
\* each area's cleaner returned.
Settle(area1, stats1, fs1) ==
  LET back == { a \in Areas : area1[a].pc = "return" }
      area2 == [a \in Areas |->
                  IF a \in back THEN [AreaIdle EXCEPT !.pc = "done"] ELSE area1[a]]
      stats2 == AreasReturn(back, area1, stats1)
      over == \A a \in Areas : area2[a].pc = "done"
  IN  /\ stats' = stats2
      /\ area' = IF over THEN [a \in Areas |-> AreaIdle] ELSE area2
      /\ cleanPc' = IF over THEN "idle" ELSE "running"
      /\ runs' = [runs EXCEPT ![Len(runs)] =
                   [@ EXCEPT !.results = [a \in Areas |->
                                           IF a \in back THEN area1[a].cleaned
                                           ELSE @[a]],
                             !.done = over,
                             !.returned = IF over THEN stats2 ELSE @,
                             !.after = IF over THEN fs1 ELSE @]]

\* the storage, the clock and a cleaner that has not run yet
CleanStart ==
  /\ now = Epoch
  /\ fs \in InitialStorages
  /\ stats = FreshStats
  /\ cleanPc = "idle"
  /\ area = [a \in Areas |-> AreaIdle]
  /\ runs = <<>>

CleanInit ==
  /\ now = Epoch
  /\ fs \in InitialStorages
  /\ \E passed \in PassedOptions : options = ConstructorOptions(passed)
  /\ stats = FreshStats
  /\ cleanPc = "idle"
  /\ area = [a \in Areas |-> AreaIdle]
  /\ runs = <<>>

\* Date.now() moves on
Tick ==
  /\ now < Epoch + MaxTick
  /\ now' = now + 1
  /\ UNCHANGED <<fs, options, stats, cleanPc, area, runs>>

\* lines 187-200 and 73-82: runCleanup of a cleaner with these options and
\* statistics calls the four cleaners; each runs as far as its readdir, or
\* returns at once when its directory is missing
StartRun(opts, st) ==
  /\ cleanPc = "idle"
  /\ Len(runs) < MaxRuns
  /\ LET started == Append(runs, [done |-> FALSE, returned |-> st,
                                  before |-> fs, after |-> fs,
                                  startedAt |-> now, dryRun |-> opts.dryRun,
                                  statsAtStart |-> st,
                                  results |-> [a \in Areas |-> AreaIdle.cleaned]])
         area1 == [a \in Areas |->
                     [AreaIdle EXCEPT !.pc = IF fs[a].exists THEN "readdir"
                                             ELSE "return"]]
         back == { a \in Areas : area1[a].pc = "return" }
         stats2 == AreasReturn(back, area1, st)
         over == back = Areas
     IN  /\ stats' = stats2
         /\ area' = IF over THEN [a \in Areas |-> AreaIdle]
                    ELSE [a \in Areas |->
                            IF a \in back THEN [AreaIdle EXCEPT !.pc = "done"]
                            ELSE area1[a]]
         /\ cleanPc' = IF over THEN "idle" ELSE "running"
         /\ runs' = IF over
                      THEN [started EXCEPT ![Len(started)] =
                              [@ EXCEPT !.done = TRUE, !.returned = stats2]]
                      ELSE started

\* server.js lines 385-423: one cleaner, made once, whose runCleanup is
\* called again and again
RunCleanup ==
  /\ StartRun(options, stats)
  /\ UNCHANGED <<now, fs, options>>

\* server.js lines 263-284: what POST /cleanup passes to the constructor
\* when the request gives dryRun only: the retention of the environment
\* (or the defaults), parsed to numbers, and dryRun as asked
RequestOptions(dry) ==
  [ retention |-> [a \in Areas |-> Given(options.retention[a])],
    dryRun |-> dry ]

\* server.js lines 261-286: POST /cleanup makes a cleaner of its own, with
\* fresh statistics, and calls its runCleanup
PostCleanup ==
  /\ \E dry \in BOOLEAN :
       LET opts == ConstructorOptions(RequestOptions(dry))
       IN  /\ options' = opts
           /\ StartRun(opts, FreshStats)
  /\ UNCHANGED <<now, fs>>

\* line 82: readdir resolves with the names of the directory
Readdir(a) ==
  /\ area[a].pc = "readdir"
  /\ fs[a].readable
  /\ \E nx \in AfterEntry([area[a] EXCEPT !.todo = Names(fs[a].entries)]) :
       Settle([area EXCEPT ![a] = nx], stats, fs)
  /\ UNCHANGED <<now, fs, options>>

\* readdir rejects and cleanDirectory returns without recording the error
ReaddirFails_silent(a) ==
  /\ area[a].pc = "readdir"
  /\ ~fs[a].readable
  /\ Settle([area EXCEPT ![a].pc = "return"], stats, fs)
  /\ UNCHANGED <<now, fs, options>>

\* lines 82, 125-128: readdir rejects; the error is recorded and
\* cleanDirectory returns what it has
ReaddirFails(a) ==
  /\ area[a].pc = "readdir"
  /\ ~fs[a].readable
  /\ Settle([area EXCEPT ![a].pc = "return"],
            [stats EXCEPT !.errors = Append(@, <<a, "readdir failed">>)], fs)
  /\ UNCHANGED <<now, fs, options>>

\* lines 92-101: whether the loop goes past an entry without counting it:
\* its stats are null, it does not match the pattern, or it is not old enough
Skipped(a, name) ==
  \/ name \notin Names(fs[a].entries)
  \/ FilePattern(a) # NoPattern /\ ~PatternTest(FilePattern(a), name)
  \/ ~TooOld(now - Lookup(fs[a].entries, name).mtime,
             MaxAge(a, options.retention))

\* in a dry run the entry is passed over without being counted
Sized_dryRunUncounted(a, st) ==
  IF Deletes(options)
    THEN Settle([area EXCEPT ![a] = [st EXCEPT !.pc = "delete"]], stats, fs)
    ELSE \E nx \in AfterEntry(st) :
           Settle([area EXCEPT ![a] = nx], stats, fs)

\* lines 102-122 for an entry whose size is known: in a dry run it is
\* counted at once, else its deletion is asked for
Sized(a, st) ==
  IF Deletes(options)
    THEN Settle([area EXCEPT ![a] = [st EXCEPT !.pc = "delete"]], stats, fs)
    ELSE \E nx \in AfterEntry(Counted(st)) :
           Settle([area EXCEPT ![a] = nx], stats, fs)

\* lines 90-104: the stats of the entry arrive; it is skipped, or found old
Stat(a) ==
  /\ area[a].pc = "stat"
  /\ LET st == area[a]
     IN  IF Skipped(a, st.cur)
           THEN \E nx \in AfterEntry(st) :
                  Settle([area EXCEPT ![a] = nx], stats, fs)
           ELSE LET e == Lookup(fs[a].entries, st.cur)
                IN  IF e.isDirectory
                      THEN Settle([area EXCEPT ![a] = [st EXCEPT !.pc = "size"]],
                                  stats, fs)
                      ELSE Sized(a, [st EXCEPT !.fileSize = e.size])
  /\ UNCHANGED <<now, fs, options>>

\* line 102: getDirectorySize of an old directory resolves (0 when the
\* directory is gone: lines 60-62)
DirectorySize(a) ==
  /\ area[a].pc = "size"
  /\ LET st == area[a]
         present == st.cur \in Names(fs[a].entries)
     IN  Sized(a, [st EXCEPT !.fileSize =
                     IF present
                       THEN getDirectorySize(Lookup(fs[a].entries, st.cur))
                       ELSE 0])
  /\ UNCHANGED <<now, fs, options>>

\* lines 107-113, 121-122: rmdir or unlink resolves, the entry is counted
Delete(a) ==
  /\ area[a].pc = "delete"
  /\ area[a].cur \in Names(fs[a].entries)
  /\ ~Lookup(fs[a].entries, area[a].cur).locked
  /\ fs' = [fs EXCEPT ![a].entries = { e \in @ : e.name # area[a].cur }]
  /\ \E nx \in AfterEntry(Counted(area[a])) :
       Settle([area EXCEPT ![a] = nx], stats, fs')
  /\ UNCHANGED <<now, options>>

\* the error is recorded and the loop is left
DeleteFails_aborts(a) ==
  /\ area[a].pc = "delete"
  /\ area[a].cur \in Names(fs[a].entries) => Lookup(fs[a].entries, area[a].cur).locked
  /\ Settle([area EXCEPT ![a] = [@ EXCEPT !.pc = "return", !.cur = NoName,
                                          !.fileSize = 0, !.todo = {}]],
            [stats EXCEPT !.errors = Append(@, <<area[a].cur, "delete failed">>)],
            fs)
  /\ UNCHANGED <<now, fs, options>>

\* lines 114-118: rmdir or unlink rejects (the entry is gone, or may not be
\* removed); the error is recorded and the loop goes on
DeleteFails(a) ==
  /\ area[a].pc = "delete"
  /\ area[a].cur \in Names(fs[a].entries) => Lookup(fs[a].entries, area[a].cur).locked
  /\ \E nx \in AfterEntry(area[a]) :
       Settle([area EXCEPT ![a] = nx],
              [stats EXCEPT !.errors = Append(@, <<area[a].cur, "delete failed">>)],
              fs)
  /\ UNCHANGED <<now, fs, options>>

(***************************************************************************)
(* POST /upload: convertPdfToText on an uploaded PDF, with its temporary   *)
(* images folder in the temp area the cleaner scans                        *)
(***************************************************************************)
\* server.js lines 139-145: the stored upload, its images folder in temp/
\* and its text file in output/
UploadName == <<"u", ".", "p", "d", "f">>
UploadImagesFolder == <<"u", "_", "i", "m", "a", "g", "e", "s">>
UploadTextFile == <<"u", "_", "o", "c", "r", ".", "t", "x", "t">>
\* The page images the rasterizer saves for the upload.
UploadPages == { <<"p", "1">>, <<"p", "2">> }

PipeIdle == [pc |-> "off", left |-> {}, missed |-> {}]

Remove(entries, name) == { e \in entries : e.name # name }

\* server.js lines 89-103: cleanUpFiles([pdfPath, tempImagesFolder])
CleanUpFiles(f) ==
  [f EXCEPT !["uploads"].entries = Remove(@, UploadName),
            !["temp"].entries = Remove(@, UploadImagesFolder)]

\* pdf-to-text.js lines 17-51: the upload exists, its images folder is
\* made, and the rasterizer is asked for the pages
UploadStarts ==
  /\ pipe.pc = "idle"
  /\ UploadName \in Names(fs["uploads"].entries)
  /\ fs' = [fs EXCEPT !["temp"].entries =
              IF UploadImagesFolder \in Names(@) THEN @
              ELSE @ \cup {Directory(UploadImagesFolder, now, {})}]
  /\ pipe' = [pipe EXCEPT !.pc = "rasterizing"]
  /\ UNCHANGED <<now, options, stats, cleanPc, area, runs>>

\* pdf-to-text.js lines 18-20 and server.js lines 193-201: the upload is
\* gone; convertPdfToText throws and the handler cleans up
UploadMissing ==
  /\ pipe.pc = "idle"
  /\ UploadName \notin Names(fs["uploads"].entries)
  /\ fs' = CleanUpFiles(fs)
  /\ pipe' = [pipe EXCEPT !.pc = "failed"]
  /\ UNCHANGED <<now, options, stats, cleanPc, area, runs>>

\* pdf-to-text.js lines 51-87 and 112-134: the rasterizer has saved the
\* pages into the folder; ocrImages lists them and asks for a worker
Rasterized ==
  /\ pipe.pc = "rasterizing"
  /\ UploadImagesFolder \in Names(fs["temp"].entries)
  /\ fs' = [fs EXCEPT !["temp"].entries =
              Remove(@, UploadImagesFolder) \cup
                {Directory(UploadImagesFolder, now,
                           { File(p, 1, now) : p \in UploadPages })}]
  /\ pipe' = [pipe EXCEPT !.pc = "recognizing", !.left = UploadPages]
  /\ UNCHANGED <<now, options, stats, cleanPc, area, runs>>

\* pdf-to-text.js lines 88-91 and server.js lines 193-201: the rasterizer
\* fails (its folder is gone, say); the handler cleans up
RasterizeFails ==
  /\ pipe.pc = "rasterizing"
  /\ fs' = CleanUpFiles(fs)
  /\ pipe' = [pipe EXCEPT !.pc = "failed"]
  /\ UNCHANGED <<now, options, stats, cleanPc, area, runs>>

\* pdf-to-text.js lines 136-161: the next page is recognized; when its image
\* is gone the error marker takes the place of its text
PageRecognized ==
  /\ pipe.pc = "recognizing"
  /\ pipe.left # {}
  /\ LET p == CHOOSE x \in pipe.left : \A y \in pipe.left : x = y \/ LexLess(x, y)
         there == /\ UploadImagesFolder \in Names(fs["temp"].entries)
                  /\ p \in Names(Lookup(fs["temp"].entries,
                                        UploadImagesFolder).children)
     IN  pipe' = [pipe EXCEPT !.left = @ \ {p},
                              !.missed = IF there THEN @ ELSE @ \cup {p}]
  /\ UNCHANGED <<now, fs, options, stats, cleanPc, area, runs>>

\* pdf-to-text.js lines 164-228: the worker is terminated, the text is
\* written, the images folder is removed (keepImages is false), the path
\* is returned
PipelineReturns ==
  /\ pipe.pc = "recognizing"
  /\ pipe.left = {}
  /\ fs' = [fs EXCEPT !["output"].entries =
                        Remove(@, UploadTextFile) \cup {File(UploadTextFile, 1, now)},
                      !["temp"].entries = Remove(@, UploadImagesFolder)]
  /\ pipe' = [pipe EXCEPT !.pc = "returned"]
  /\ UNCHANGED <<now, options, stats, cleanPc, area, runs>>

\* from the making of the images folder until recognition has finished
InFlight == pipe.pc \in {"rasterizing", "recognizing"}

RaceInit ==
  /\ now = Epoch
  /\ \E l \in {NoDir, Unreadable, Dir({})} :
       fs = [uploads |-> Dir({File(UploadName, 5, Epoch)}),
             output |-> Dir({}), temp |-> Dir({}), logs |-> l]
  /\ \E passed \in PassedOptions : options = ConstructorOptions(passed)
  /\ stats = FreshStats
  /\ cleanPc = "idle"
  /\ area = [a \in Areas |-> AreaIdle]
  /\ runs = <<>>
  /\ pipe = [PipeIdle EXCEPT !.pc = "idle"]

CleanIdle ==
  /\ now = Epoch
  /\ fs = [a \in Areas |-> NoDir]
  /\ options = ConstructorOptions([retention |-> [a \in Areas |-> Absent],
                                   dryRun |-> FALSE])
  /\ stats = FreshStats
  /\ cleanPc = "off"
  /\ area = [a \in Areas |-> AreaIdle]
  /\ runs = <<>>

MaxPages == 2

(***************************************************************************)
(* convertPdfToImages: the pdf-to-images tool (part_000) and the function  *)
(* of the same name in cli/pdf-to-text.js                                  *)
(***************************************************************************)
Implementations == {"pdf-to-images", "pdf-to-text"}
\* What pdf2pic's bulk(-1) may hold for a page: the path of a file it has
\* written, base64 data without a file, or neither.
ResultKinds == {"file", "base64", "none"}
\* pdf2pic with saveFilename "page" writes page i as page.<i>.<format>
RasterName(i) ==
  <<"p", "a", "g", "e", ".">> \o NumberToString(i) \o <<".", "p", "n", "g">>
RasterResults == UNION { [1..n -> ResultKinds] : n \in 0..MaxPages }

\* The process of a tool: running, or ended with an exit code.
Running == [exited |-> FALSE, code |-> 0]
Exited(code) == [exited |-> TRUE, code |-> code]

ImgIdle ==
  [ pc |-> "off", impl |-> "pdf-to-images", argsValid |-> TRUE,
    pdfExists |-> FALSE, folder |-> NoFolder, atStart |-> NoFolder,
    called |-> FALSE, results |-> <<>>, i |-> 0, savedImages |-> <<>>,
    returned |-> FALSE, error |-> NoError, exit |-> Running ]

\* The tool is run, or the function is called: the PDF is there or not, the
\* output folder is there or not; the tool's options (format, density,
\* quality) pass its validation or do not.
ImgInit ==
  \E impl \in Implementations, valid, pdf \in BOOLEAN :
    \E f \in {NoFolder, Folder({})} :
      /\ impl = "pdf-to-text" => valid
      /\ img = [ImgIdle EXCEPT !.pc = "main", !.impl = impl, !.argsValid = valid,
                               !.pdfExists = pdf, !.folder = f, !.atStart = f]

\* The call is over.  part_000 lines 153-190: the action of the tool ends
\* the process with code 1 when it catches an error, and the process ends
\* with code 0 when the action returns; pdf-to-text.js: the function returns
\* or throws.
ImgEnds(m, message) ==
  IF m.impl = "pdf-to-images"
    THEN [m EXCEPT !.pc = "exited", !.error = message,
                   !.exit = Exited(IF message = NoError THEN 0 ELSE 1)]
    ELSE [m EXCEPT !.pc = IF message = NoError THEN "returned" ELSE "thrown",
                   !.error = message]

\* part_000 lines 155-179: an option fails the validation of the action
ImgInvalidArgs ==
  /\ img.pc = "main"
  /\ ~img.argsValid
  /\ img' = [img EXCEPT !.pc = "exited", !.exit = Exited(1)]

\* the folder is made before the PDF is looked for
ImgPdfMissing_afterMkdir ==
  /\ img.pc = "main"
  /\ img.argsValid
  /\ ~img.pdfExists
  /\ img' = ImgEnds([img EXCEPT !.folder = IF @.exists THEN @ ELSE Folder({})],
                    "PDF file not found")

\* part_000 lines 17-19, pdf-to-text.js lines 18-20: the PDF is not there
ImgPdfMissing ==
  /\ img.pc = "main"
  /\ img.argsValid
  /\ ~img.pdfExists
  /\ img' = ImgEnds(img, "PDF file not found")

\* part_000 lines 21-52, pdf-to-text.js lines 22-51: the folder is made when
\* it is missing and pdf2pic is asked for all pages
ImgStart ==
  /\ img.pc = "main"
  /\ img.argsValid
  /\ img.pdfExists
  /\ img' = [img EXCEPT !.pc = "rasterizing", !.called = TRUE,
                        !.folder = IF @.exists THEN @ ELSE Folder({})]

\* part_000 line 52, pdf-to-text.js line 51: bulk(-1) resolves
ImgRasterized ==
  /\ img.pc = "rasterizing"
  /\ \E rs \in RasterResults :
       img' = [img EXCEPT !.pc = "loop", !.results = rs,
                 !.folder = Folder(@.entries \cup
                              { RasterName(k) : k \in { j \in DOMAIN rs : rs[j] = "file" } })]

\* bulk(-1) rejects.  part_000 lines 130-133: the catch logs the error and
\* returns an empty list; pdf-to-text.js lines 88-91: the catch rethrows
ImgRasterizeFails ==
  /\ img.pc = "rasterizing"
  /\ img' = IF img.impl = "pdf-to-images"
              THEN [img EXCEPT !.pc = "exited", !.error = "rasterizer failed",
                               !.returned = TRUE, !.exit = Exited(0)]
              ELSE ImgEnds(img, "rasterizer failed")

\* a result without a file ends the loop: the list is returned as it is
ImgSkip_returns(m) == ImgEnds([m EXCEPT !.returned = TRUE], NoError)
\* part_000 lines 104-114, pdf-to-text.js lines 79-81: a result is passed by
ImgSkip(m) == [m EXCEPT !.i = @ + 1]

\* the result is in the list under its new name
ImgSaved(m, k) == [m EXCEPT !.i = k, !.savedImages = Append(@, PageName(k))]

\* part_000 lines 60-124, pdf-to-text.js lines 59-82: the loop takes the
\* next result.  A file is renamed to its page name; when the rename fails
\* part_000 sets savedPath to the old path and then to the new one (lines
\* 81-87), pdf-to-text.js lets the error go to its catch.  part_000 writes
\* base64 data to the page name, which may fail (lines 88-109).
ImgPage ==
  /\ img.pc = "loop"
  /\ img.i < Len(img.results)
  /\ LET k == img.i + 1
         kind == img.results[k]
         renamed == [img EXCEPT !.folder = Folder((@.entries \ {RasterName(k)})
                                                   \cup {PageName(k)})]
         written == [img EXCEPT !.folder = Folder(@.entries \cup {PageName(k)})]
     IN  \/ /\ kind = "file"
            /\ \/ img' = ImgSaved(renamed, k)
               \/ img' = IF img.impl = "pdf-to-images"
                           THEN ImgSaved(img, k)
                           ELSE ImgEnds(img, "rename failed")
         \/ /\ kind = "base64" /\ img.impl = "pdf-to-images"
            /\ \/ img' = ImgSaved(written, k)
               \/ img' = ImgSkip(img)
         \/ /\ kind = "none" \/ (kind = "base64" /\ img.impl = "pdf-to-text")
            /\ img' = ImgSkip(img)

\* part_000 lines 126-129, pdf-to-text.js lines 84-87: the list is returned
ImgReturn ==
  /\ img.pc = "loop"
  /\ img.i = Len(img.results)
  /\ img' = ImgEnds([img EXCEPT !.returned = TRUE], NoError)

(***************************************************************************)
(* The file-cleaner tool: main of cli/file-cleaner.js                      *)
(***************************************************************************)
\* line 229: the directories getDiskUsage reads, in this order
ReportOrder == <<"uploads", "output", "temp", "logs">>
NoUsage == [a \in Areas |-> [size |-> 0, exists |-> FALSE]]

NoArguments == [retention |-> [a \in Areas |-> Absent], dryRun |-> FALSE]
CliIdle ==
  [ pc |-> "off", report |-> FALSE, argv |-> NoArguments,
    atStart |-> [a \in Areas |-> NoDir],
    scanned |-> <<>>, usage |-> NoUsage, exit |-> Running ]

\* lines 262-266: the command lines of the model: each retention option is
\* left out or given as 0, --dry-run is given or not
CommandLines ==
  { [retention |-> r, dryRun |-> d] :
      r \in [Areas -> {Absent, Given(0)}], d \in BOOLEAN }

\* lines 262-265, 275-280: a retention the command line does not give is
\* commander's default ('1', '7', '2', '30', the numbers of the
\* constructor); given or not, its parseInt is passed to the constructor
ParsedOptions(argv) ==
  [ retention |-> [a \in Areas |->
                     Given(IF argv.retention[a].given
                             THEN argv.retention[a].value
                             ELSE DefaultRetention[a])],
    dryRun |-> argv.dryRun ]

\* lines 256-284: the tool is run with --report or without, with some
\* retention options and with --dry-run or without, on some storage
CliInit ==
  \E r \in BOOLEAN : \E argv \in CommandLines :
    /\ cli = [CliIdle EXCEPT !.pc = "main", !.report = r, !.argv = argv,
                             !.atStart = fs]
    /\ options = ConstructorOptions(ParsedOptions(argv))

\* lines 45-64, 234-237: what getDiskUsage finds for a directory: the sum of
\* the sizes of the files under it, 0 when it is missing or cannot be
\* read, and whether it exists
UsageOf(dir) ==
  [ size |-> IF dir.exists /\ dir.readable THEN SumSizes(dir.entries) ELSE 0,
    exists |-> dir.exists ]

\* lines 288-289, 243-245: with --report main calls reportDiskUsage, which
\* calls getDiskUsage
ReportStarts ==
  /\ cli.pc = "main"
  /\ cli.report
  /\ cli' = [cli EXCEPT !.pc = "reporting"]
  /\ UNCHANGED cleanVars

\* lines 232-238: getDiskUsage reads the next directory
ReportDirectory ==
  /\ cli.pc = "reporting"
  /\ Len(cli.scanned) < Len(ReportOrder)
  /\ LET a == ReportOrder[Len(cli.scanned) + 1]
     IN  cli' = [cli EXCEPT !.scanned = Append(@, a), !.usage[a] = UsageOf(fs[a])]
  /\ UNCHANGED cleanVars

\* lines 247-253, 293: the report is logged and the process ends
ReportExit ==
  /\ cli.pc = "reporting"
  /\ Len(cli.scanned) = Len(ReportOrder)
  /\ cli' = [cli EXCEPT !.pc = "exited", !.exit = Exited(0)]
  /\ UNCHANGED cleanVars

\* the cleanup is run with --report too
CliCleanup_always ==
  /\ cli.pc = "main"
  /\ RunCleanup
  /\ cli' = [cli EXCEPT !.pc = "cleaning"]

\* lines 290-291: without --report main calls runCleanup
CliCleanup ==
  /\ cli.pc = "main"
  /\ ~cli.report
  /\ RunCleanup
  /\ cli' = [cli EXCEPT !.pc = "cleaning"]

\* line 293: runCleanup has returned and the process ends
CliCleanupExit ==
  /\ cli.pc = "cleaning"
  /\ cleanPc = "idle"
  /\ cli' = [cli EXCEPT !.pc = "exited", !.exit = Exited(0)]
  /\ UNCHANGED cleanVars

(***************************************************************************)
(* Two cleaners at work on one directory                                   *)
(***************************************************************************)
\* Two FileCleaner objects whose cleanDirectory calls on the temp directory
\* overlap: that of the server's schedule (server.js lines 385-423) and
\* another one (POST /cleanup, server.js lines 263-286, or the tool).  Each
\* has statistics of its own; every await of cleanDirectory is a point where
\* the other may go on.
Cleaners == {"scheduled", "manual"}

\* What the directory may hold: the placeholder, an old file, an old
\* directory with a file in it, and a file of this moment.
OverlapUniverse ==
  { File(GitKeep, 1, 0),
    File(<<"o", "l", "d", ".", "t", "m", "p">>, 3, 0),
    Directory(<<"a", "_", "i", "m", "a", "g", "e", "s">>, 0,
              { File(<<"p", "1">>, 4, 0) }),
    File(<<"n", "e", "w", ".", "t", "m", "p">>, 2, Epoch) }

\* line 74 and what the model keeps of a call: the names it counted
CallIdle ==
  [ pc |-> "idle", todo |-> {}, cur |-> NoName, fileSize |-> 0,
    cleaned |-> [count |-> 0, size |-> 0], errors |-> <<>>, counted |-> {} ]
OverlapIdle ==
  [ atStart |-> {}, dir |-> {}, call |-> [r \in Cleaners |-> CallIdle] ]
OverlapInit ==
  \E S \in SUBSET OverlapUniverse :
    overlap = [OverlapIdle EXCEPT !.atStart = S, !.dir = S]

\* lines 114-118: the catch of a deletion: the error goes to the error list
\* and the loop goes on with the next name, the entry not being counted
DeletionFailed(c) ==
  AfterEntry([c EXCEPT !.errors = Append(@, <<c.cur, "ENOENT">>)])
\* lines 119-122: the deletion has resolved: the entry is counted
Deleted(c) ==
  AfterEntry([Counted(c) EXCEPT !.counted = @ \cup {c.cur}])

\* lines 82-90: readdir resolves with the names the directory holds now
OverlapReaddir(r) ==
  /\ overlap.call[r].pc = "idle"
  /\ \E c \in AfterEntry([overlap.call[r] EXCEPT !.todo = Names(overlap.dir)]) :
       overlap' = [overlap EXCEPT !.call[r] = c]

\* lines 90-104: getFileStats resolves: with null when the entry is gone
\* (lines 37-43), and the loop goes on; else the age is compared, and an
\* old file goes to its unlink, an old directory to getDirectorySize
OverlapStat(r) ==
  LET c == overlap.call[r]
  IN  /\ c.pc = "stat"
      /\ IF c.cur \notin Names(overlap.dir)
           THEN \E n \in AfterEntry(c) : overlap' = [overlap EXCEPT !.call[r] = n]
           ELSE LET e == Lookup(overlap.dir, c.cur)
                IN  IF TooOld(Epoch - e.mtime, MaxAge("temp", DefaultRetention))
                      THEN overlap' =
                             [overlap EXCEPT !.call[r] =
                                [c EXCEPT !.pc = IF e.isDirectory THEN "size"
                                                 ELSE "unlink",
                                          !.fileSize = IF e.isDirectory THEN 0
                                                       ELSE e.size]]
                      ELSE \E n \in AfterEntry(c) :
                             overlap' = [overlap EXCEPT !.call[r] = n]

\* lines 102, 45-64: getDirectorySize resolves: with 0 from its catch when
\* the directory is gone
OverlapDirectorySize(r) ==
  LET c == overlap.call[r]
  IN  /\ c.pc = "size"
      /\ overlap' =
           [overlap EXCEPT !.call[r] =
              [c EXCEPT !.pc = "rmdir",
                        !.fileSize = IF c.cur \in Names(overlap.dir)
                                       THEN getDirectorySize(Lookup(overlap.dir, c.cur))
                                       ELSE 0]]

\* lines 110, 114-122: unlink resolves and the file is counted, or rejects
\* with ENOENT because the file is gone
OverlapUnlink(r) ==
  LET c == overlap.call[r]
  IN  /\ c.pc = "unlink"
      /\ IF c.cur \in Names(overlap.dir)
           THEN \E n \in Deleted(c) :
                  overlap' = [overlap EXCEPT !.call[r] = n,
                                             !.dir = Remove(@, c.cur)]
           ELSE \E n \in DeletionFailed(c) :
                  overlap' = [overlap EXCEPT !.call[r] = n]

\* line 108: rmdir(filePath, {recursive: true}) first asks for the stats of
\* the path and rejects with ENOENT when it is gone (Node 18, the version
\* of the Dockerfile); else it starts removing the tree
OverlapRmdir(r) ==
  LET c == overlap.call[r]
  IN  /\ c.pc = "rmdir"
      /\ IF c.cur \in Names(overlap.dir)
           THEN overlap' = [overlap EXCEPT !.call[r] = [c EXCEPT !.pc = "rimraf"]]
           ELSE \E n \in DeletionFailed(c) :
                  overlap' = [overlap EXCEPT !.call[r] = n]

\* lines 108, 119-122: the removal of the tree resolves; what is gone
\* already is passed over without an error, so it resolves as well when
\* another removal took the directory in the meantime
OverlapRimraf(r) ==
  LET c == overlap.call[r]
  IN  /\ c.pc = "rimraf"
      /\ \E n \in Deleted(c) :
           overlap' = [overlap EXCEPT !.call[r] = n,
                                      !.dir = Remove(@, c.cur)]

(***************************************************************************)
(* server.js: the results of the uploads and their downloads               *)
(***************************************************************************)
\* Time is counted in periods of the sweep (line 375: 5 minutes); the
\* results are kept for 10 minutes (lines 181 and 368).
SessionTtl == 2
MaxClock == 4
\* The session ids uuidv4 may give, and the ids a download may ask for:
\* these, one that was never given, and a name every object inherits.
SessionIds == {"s1", "s2"}
PrototypeKeys == {"constructor"}
RequestedIds == SessionIds \cup {"unknown"} \cup PrototypeKeys
Formats == {"txt", "docx", "pdf"}
OcrTexts == {"", "a"}

NoBody == [sent |-> FALSE, text |-> ""]
Body(text) == [sent |-> TRUE, text |-> text]
NoResponse == [id |-> "", format |-> "", status |-> 0, body |-> NoBody, held |-> FALSE]

\* global.results is not set until the first upload has succeeded (line
\* 167); timers: the setTimeout of each upload and when it is due; given:
\* the ids uuidv4 has given so far
WebIdle ==
  [ clock |-> 0, defined |-> FALSE, results |-> <<>>, timers |-> <<>>,
    given |-> {}, last |-> NoResponse ]
WebInit == web = WebIdle

\* delete global.results[sessionId]
Without(map, ids) == [s \in DOMAIN map \ ids |-> map[s]]

\* lines 207-212: global.results[sessionId]: the result of the session when
\* the object holds one, else what the object inherits under this name, else
\* undefined.  An inherited value is truthy and has no text and no filename.
Held(w, id) == w.defined /\ (id \in DOMAIN w.results \/ id \in PrototypeKeys)

\* Date.now() moves on
WebTick ==
  /\ web.clock < MaxClock
  /\ web' = [web EXCEPT !.clock = @ + 1]

\* lines 134-192: an upload is converted and its text is stored under a new
\* session id, with the time of this moment, and the timer is set
UploadStored ==
  /\ web.clock + SessionTtl <= MaxClock
  /\ \E s \in SessionIds \ web.given : \E text \in OcrTexts :
       web' = [web EXCEPT
                 !.defined = TRUE,
                 !.results = [x \in DOMAIN @ \cup {s} |->
                                IF x = s THEN [text |-> text, timestamp |-> web.clock]
                                ELSE @[x]],
                 !.timers = [x \in DOMAIN @ \cup {s} |->
                               IF x = s THEN web.clock + SessionTtl ELSE @[x]],
                 !.given = @ \cup {s}]

\* lines 174-179: the timer of a session fires, when it is due or later:
\* the result is deleted if it is still there
TimerFires(s) ==
  /\ s \in DOMAIN web.timers
  /\ web.clock >= web.timers[s]
  /\ web' = [web EXCEPT !.results = Without(@, {s}),
                        !.timers = Without(@, {s})]

\* lines 364-374: the sweep deletes every result older than 10 minutes
Sweep ==
  /\ web.defined
  /\ web' = [web EXCEPT
               !.results = Without(@, { s \in DOMAIN @ :
                                          web.clock - @[s].timestamp > SessionTtl })]

\* lines 205-252: GET /download/:sessionId/:format
Download(id, format) ==
  web' = [web EXCEPT !.last =
            IF ~Held(web, id)
              THEN [id |-> id, format |-> format, held |-> FALSE,
                    status |-> 404, body |-> NoBody]
            ELSE IF id \in DOMAIN web.results
              THEN [id |-> id, format |-> format, held |-> TRUE,
                    status |-> IF format \in {"txt", "docx"} THEN 200 ELSE 400,
                    body |-> IF format \in {"txt", "docx"}
                               THEN Body(web.results[id].text) ELSE NoBody]
            \* the inherited value: text is undefined; res.send(undefined)
            \* ends the response with status 200 and no body (line 223),
            \* text.split throws in createDocxFromText (lines 107, 225, 250)
            ELSE [id |-> id, format |-> format, held |-> TRUE,
                  status |-> CASE format = "txt" -> 200
                               [] format = "docx" -> 500
                               [] OTHER -> 400,
                  body |-> NoBody]]

ToolsIdle == img = ImgIdle /\ cli = CliIdle /\ overlap = OverlapIdle /\ web = WebIdle

(***************************************************************************)
(* convertPdfToText: rasterize, recognize, clean up                        *)
(***************************************************************************)
\* An image left in the folder by an earlier conversion.
StaleImage == PageName(10)
\* What convertPdfToText may throw.
ConvErrors ==
  { "PDF file not found", "rasterizer failed", "Images folder not found",
    "No image files found", "createWorker failed", "writeFileSync failed" }

ConvIdle ==
  [ pc |-> "off", pdfExists |-> FALSE, keepImages |-> FALSE, rmFails |-> FALSE,
    folder |-> NoFolder, images |-> [returned |-> FALSE, saved |-> {}],
    recognized |-> <<>>, written |-> FALSE, error |-> NoError, log |-> <<>>,
    atFailure |-> NoFolder, call |-> 0 ]

\* A call of convertPdfToText: the PDF is there or not, keepImages is set or
\* not, the images folder is missing, empty or holds an image of an earlier
\* conversion, and removing the folder will work or not.
ConvInit ==
  \E pdf, keep, rm \in BOOLEAN :
    \E f \in {NoFolder, Folder({}), Folder({StaleImage})} :
      conv = [ConvIdle EXCEPT !.pc = "start", !.pdfExists = pdf,
                              !.keepImages = keep, !.rmFails = rm, !.folder = f,
                              !.call = 1]

\* lines 258-268: convertPdfToText is called again with the images folder
\* of the call before (the same --images-folder, or the same document
\* converted again): the folder is as that call left it
MaxCalls == 2
ConvAgain ==
  /\ conv.pc \in {"returned", "thrown"}
  /\ conv.call < MaxCalls
  /\ \E pdf, keep, rm \in BOOLEAN :
       conv' = [ConvIdle EXCEPT !.pc = "start", !.pdfExists = pdf,
                                !.keepImages = keep, !.rmFails = rm,
                                !.folder = conv.folder, !.call = conv.call + 1]

\* A stage throws: its own catch logs and rethrows (lines 88-91, 173-176),
\* and the catch of convertPdfToText has the error next (line 229).
ConvThrows(c, message) ==
  [c EXCEPT !.pc = "caught", !.error = message, !.atFailure = c.folder]

\* lines 192, 17-20: convertPdfToImages is called and the PDF is not there
ConvPdfMissing ==
  /\ conv.pc = "start"
  /\ ~conv.pdfExists
  /\ conv' = ConvThrows([conv EXCEPT !.log = Append(@, "rasterize")],
                        "PDF file not found")

\* lines 192, 17-51: convertPdfToImages is called, makes the folder when it
\* is missing and asks pdf2pic for all pages
ConvStart ==
  /\ conv.pc = "start"
  /\ conv.pdfExists
  /\ conv' = [conv EXCEPT !.pc = "rasterizing",
                          !.log = Append(@, "rasterize"),
                          !.folder = IF @.exists THEN @ ELSE Folder({})]

\* lines 51-87, 198-206, 102-134: pdf2pic resolves with n pages, of which
\* those whose file is found are saved under their page names (the others
\* get a warning); convertPdfToImages returns, and ocrImages is called with
\* the folder, lists it, and throws or asks for a worker
ConvRasterized ==
  /\ conv.pc = "rasterizing"
  /\ \E n \in 0..MaxPages : \E saved \in SUBSET { PageName(k) : k \in 1..n } :
       LET c == [conv EXCEPT !.images = [returned |-> TRUE, saved |-> saved],
                             !.folder = Folder(@.entries \cup saved),
                             !.log = Append(@, "recognize")]
           listed == ImageFiles(c.folder.entries, PagePrefix)
       IN  conv' = IF listed = <<>>
                     THEN ConvThrows(c, "No image files found")
                     ELSE [c EXCEPT !.pc = "recognizing", !.recognized = listed]

\* lines 51, 88-91: pdf2pic rejects, having written some pages or none
ConvRasterizeFails ==
  /\ conv.pc = "rasterizing"
  /\ \E partial \in SUBSET { PageName(k) : k \in 1..MaxPages } :
       conv' = ConvThrows([conv EXCEPT !.folder = Folder(@.entries \cup partial)],
                          "rasterizer failed")

\* lines 134-172, 203: ocrImages has recognized the files it listed, one
\* block each, has written the text and returns its path
ConvRecognized ==
  /\ conv.pc = "recognizing"
  /\ conv' = [conv EXCEPT !.pc = "cleanup", !.written = TRUE]

\* lines 134, 167, 173-176: createWorker rejects or writeFileSync throws
ConvRecognizeFails ==
  /\ conv.pc = "recognizing"
  /\ \E message \in {"createWorker failed", "writeFileSync failed"} :
       conv' = ConvThrows(conv, message)

\* the catch removes the images folder before it rethrows
ConvCatch_removesFolder ==
  /\ conv.pc = "caught"
  /\ conv' = [conv EXCEPT !.pc = "thrown", !.folder = NoFolder]

\* lines 229-232: the catch of convertPdfToText logs the error and rethrows
ConvCatch ==
  /\ conv.pc = "caught"
  /\ conv' = [conv EXCEPT !.pc = "thrown"]

\* the folder is removed as soon as the recognizer has been called
ConvCleanup_early ==
  /\ conv.pc \in {"recognizing", "cleanup"}
  /\ "cleanup" \notin Range(conv.log)
  /\ conv' = [conv EXCEPT !.pc = IF @ = "cleanup" THEN "returned" ELSE @,
                          !.log = Append(@, "cleanup"),
                          !.folder = NoFolder]

\* the folder is removed whatever keepImages says
ConvCleanup_ignoresKeep ==
  /\ conv.pc = "cleanup"
  /\ conv' = [conv EXCEPT !.pc = "returned",
                          !.log = Append(@, "cleanup"),
                          !.folder = NoFolder]

\* lines 208-228: unless keepImages is set the folder is removed, a failure
\* of rmSync being a warning only; the path of the text is returned
ConvCleanup ==
  /\ conv.pc = "cleanup"
  /\ IF conv.keepImages
       THEN conv' = [conv EXCEPT !.pc = "returned"]
       ELSE \E rest \in SUBSET conv.folder.entries :
              conv' = [conv EXCEPT !.pc = "returned",
                                   !.log = Append(@, "cleanup"),
                                   !.folder = IF conv.rmFails THEN Folder(rest)
                                              ELSE NoFolder]

NextConv ==
  \/ ConvPdfMissing /\ UNCHANGED <<ocrVars, batchVars, cleanVars, pipeVars, toolVars>>
  \/ ConvStart /\ UNCHANGED <<ocrVars, batchVars, cleanVars, pipeVars, toolVars>>
  \/ ConvRasterized /\ UNCHANGED <<ocrVars, batchVars, cleanVars, pipeVars, toolVars>>
  \/ ConvRasterizeFails /\ UNCHANGED <<ocrVars, batchVars, cleanVars, pipeVars, toolVars>>
  \/ ConvRecognized /\ UNCHANGED <<ocrVars, batchVars, cleanVars, pipeVars, toolVars>>
  \/ ConvRecognizeFails /\ UNCHANGED <<ocrVars, batchVars, cleanVars, pipeVars, toolVars>>
  \/ ConvCatch /\ UNCHANGED <<ocrVars, batchVars, cleanVars, pipeVars, toolVars>>
  \/ ConvCleanup /\ UNCHANGED <<ocrVars, batchVars, cleanVars, pipeVars, toolVars>>
  \/ ConvAgain /\ UNCHANGED <<ocrVars, batchVars, cleanVars, pipeVars, toolVars>>
InitConv == OcrIdle /\ BatchIdle /\ CleanIdle /\ pipe = PipeIdle /\ ConvInit /\ ToolsIdle
SpecConv == InitConv /\ [][NextConv]_vars

(***************************************************************************)
(* Specifications                                                          *)
(***************************************************************************)
\* ocrImages on one folder
NextOcr ==
  \/ OcrFolderMissing /\ UNCHANGED <<batchVars, cleanVars, pipeVars, convVars, toolVars>>
  \/ OcrListFiles /\ UNCHANGED <<batchVars, cleanVars, pipeVars, convVars, toolVars>>
  \/ CreateWorker /\ UNCHANGED <<batchVars, cleanVars, pipeVars, convVars, toolVars>>
  \/ CreateWorkerFails /\ UNCHANGED <<batchVars, cleanVars, pipeVars, convVars, toolVars>>
  \/ RecognizePage /\ UNCHANGED <<batchVars, cleanVars, pipeVars, convVars, toolVars>>
  \/ TerminateAndWrite /\ UNCHANGED <<batchVars, cleanVars, pipeVars, convVars, toolVars>>
  \/ WriteFails /\ UNCHANGED <<batchVars, cleanVars, pipeVars, convVars, toolVars>>
InitOcr == OcrInit /\ BatchIdle /\ CleanIdle /\ pipe = PipeIdle /\ conv = ConvIdle /\ ToolsIdle
SpecOcr == InitOcr /\ [][NextOcr]_vars

\* batchProcessPdfs on one input
NextBatch ==
  \/ BatchFatal /\ UNCHANGED <<ocrVars, cleanVars, pipeVars, convVars, toolVars>>
  \/ BatchStart /\ UNCHANGED <<ocrVars, cleanVars, pipeVars, convVars, toolVars>>
  \/ BatchTick /\ UNCHANGED <<ocrVars, cleanVars, pipeVars, convVars, toolVars>>
  \/ \E d \in DOMAIN docState :
       SessionAcquired(d) /\ UNCHANGED <<ocrVars, cleanVars, pipeVars, convVars, toolVars>>
  \/ \E d \in DOMAIN docState :
       SessionTerminated(d) /\ UNCHANGED <<ocrVars, cleanVars, pipeVars, convVars, toolVars>>
  \/ \E d \in DOMAIN docState :
       PipelineResolves(d) /\ UNCHANGED <<ocrVars, cleanVars, pipeVars, convVars, toolVars>>
  \/ \E d \in DOMAIN docState :
       PipelineRejects(d) /\ UNCHANGED <<ocrVars, cleanVars, pipeVars, convVars, toolVars>>
  \/ \E d \in DOMAIN docState :
       RecordSuccess(d) /\ UNCHANGED <<ocrVars, cleanVars, pipeVars, convVars, toolVars>>
  \/ \E d \in DOMAIN docState :
       RecordFailure(d) /\ UNCHANGED <<ocrVars, cleanVars, pipeVars, convVars, toolVars>>
  \/ NextChunk /\ UNCHANGED <<ocrVars, cleanVars, pipeVars, convVars, toolVars>>
  \/ WriteSummary /\ UNCHANGED <<ocrVars, cleanVars, pipeVars, convVars, toolVars>>
InitBatch == OcrIdle /\ BatchInit /\ CleanIdle /\ pipe = PipeIdle /\ conv = ConvIdle /\ ToolsIdle
SpecBatch == InitBatch /\ [][NextBatch]_vars

\* the batch tool run with any --concurrent; what can happen next does
\* happen: the event loop runs every callback that is ready, every
\* pipeline settles, and the loop of line 78 goes on while its test holds
InitBatchUnvalidated ==
  OcrIdle /\ BatchInitUnvalidated /\ CleanIdle /\ pipe = PipeIdle /\ conv = ConvIdle /\ ToolsIdle
SpecBatchUnvalidated ==
  InitBatchUnvalidated /\ [][NextBatch]_vars /\ WF_vars(NextBatch)

\* one cleaner and its runCleanup calls, one after the other
NextClean ==
  \/ Tick /\ UNCHANGED <<ocrVars, batchVars, pipeVars, convVars, toolVars>>
  \/ RunCleanup /\ UNCHANGED <<ocrVars, batchVars, pipeVars, convVars, toolVars>>
  \/ \E a \in Areas : Readdir(a) /\ UNCHANGED <<ocrVars, batchVars, pipeVars, convVars, toolVars>>
  \/ \E a \in Areas : ReaddirFails(a) /\ UNCHANGED <<ocrVars, batchVars, pipeVars, convVars, toolVars>>
  \/ \E a \in Areas : Stat(a) /\ UNCHANGED <<ocrVars, batchVars, pipeVars, convVars, toolVars>>
  \/ \E a \in Areas : DirectorySize(a) /\ UNCHANGED <<ocrVars, batchVars, pipeVars, convVars, toolVars>>
  \/ \E a \in Areas : Delete(a) /\ UNCHANGED <<ocrVars, batchVars, pipeVars, convVars, toolVars>>
  \/ \E a \in Areas : DeleteFails(a) /\ UNCHANGED <<ocrVars, batchVars, pipeVars, convVars, toolVars>>
InitClean == OcrIdle /\ BatchIdle /\ CleanInit /\ pipe = PipeIdle /\ conv = ConvIdle /\ ToolsIdle
SpecClean == InitClean /\ [][NextClean]_vars

\* the server's POST /cleanup requests, one after the other, the retention
\* being that of the environment
NextManual ==
  \/ PostCleanup /\ UNCHANGED <<ocrVars, batchVars, pipeVars, convVars, toolVars>>
  \/ \E a \in Areas : Readdir(a) /\ UNCHANGED <<ocrVars, batchVars, pipeVars, convVars, toolVars>>
  \/ \E a \in Areas : ReaddirFails(a) /\ UNCHANGED <<ocrVars, batchVars, pipeVars, convVars, toolVars>>
  \/ \E a \in Areas : Stat(a) /\ UNCHANGED <<ocrVars, batchVars, pipeVars, convVars, toolVars>>
  \/ \E a \in Areas : DirectorySize(a) /\ UNCHANGED <<ocrVars, batchVars, pipeVars, convVars, toolVars>>
  \/ \E a \in Areas : Delete(a) /\ UNCHANGED <<ocrVars, batchVars, pipeVars, convVars, toolVars>>
  \/ \E a \in Areas : DeleteFails(a) /\ UNCHANGED <<ocrVars, batchVars, pipeVars, convVars, toolVars>>
InitManual == OcrIdle /\ BatchIdle /\ CleanInit /\ pipe = PipeIdle /\ conv = ConvIdle /\ ToolsIdle
SpecManual == InitManual /\ [][NextManual]_vars

\* one run of the pdf-to-images tool, or one call of convertPdfToImages
NextImages ==
  \/ ImgInvalidArgs /\ UNCHANGED <<ocrVars, batchVars, cleanVars, pipeVars, convVars, cli, overlap, web>>
  \/ ImgPdfMissing /\ UNCHANGED <<ocrVars, batchVars, cleanVars, pipeVars, convVars, cli, overlap, web>>
  \/ ImgStart /\ UNCHANGED <<ocrVars, batchVars, cleanVars, pipeVars, convVars, cli, overlap, web>>
  \/ ImgRasterized /\ UNCHANGED <<ocrVars, batchVars, cleanVars, pipeVars, convVars, cli, overlap, web>>
  \/ ImgRasterizeFails /\ UNCHANGED <<ocrVars, batchVars, cleanVars, pipeVars, convVars, cli, overlap, web>>
  \/ ImgPage /\ UNCHANGED <<ocrVars, batchVars, cleanVars, pipeVars, convVars, cli, overlap, web>>
  \/ ImgReturn /\ UNCHANGED <<ocrVars, batchVars, cleanVars, pipeVars, convVars, cli, overlap, web>>
InitImages ==
  OcrIdle /\ BatchIdle /\ CleanIdle /\ pipe = PipeIdle /\ conv = ConvIdle /\ ImgInit /\ cli = CliIdle
  /\ overlap = OverlapIdle /\ web = WebIdle
SpecImages == InitImages /\ [][NextImages]_vars

\* one run of the file-cleaner tool
NextCli ==
  \/ ReportStarts /\ UNCHANGED <<ocrVars, batchVars, pipeVars, convVars, img, overlap, web>>
  \/ ReportDirectory /\ UNCHANGED <<ocrVars, batchVars, pipeVars, convVars, img, overlap, web>>
  \/ ReportExit /\ UNCHANGED <<ocrVars, batchVars, pipeVars, convVars, img, overlap, web>>
  \/ CliCleanup /\ UNCHANGED <<ocrVars, batchVars, pipeVars, convVars, img, overlap, web>>
  \/ CliCleanupExit /\ UNCHANGED <<ocrVars, batchVars, pipeVars, convVars, img, overlap, web>>
  \/ \E a \in Areas : Readdir(a) /\ UNCHANGED <<ocrVars, batchVars, pipeVars, convVars, toolVars>>
  \/ \E a \in Areas : ReaddirFails(a) /\ UNCHANGED <<ocrVars, batchVars, pipeVars, convVars, toolVars>>
  \/ \E a \in Areas : Stat(a) /\ UNCHANGED <<ocrVars, batchVars, pipeVars, convVars, toolVars>>
  \/ \E a \in Areas : DirectorySize(a) /\ UNCHANGED <<ocrVars, batchVars, pipeVars, convVars, toolVars>>
  \/ \E a \in Areas : Delete(a) /\ UNCHANGED <<ocrVars, batchVars, pipeVars, convVars, toolVars>>
  \/ \E a \in Areas : DeleteFails(a) /\ UNCHANGED <<ocrVars, batchVars, pipeVars, convVars, toolVars>>
InitCli ==
  OcrIdle /\ BatchIdle /\ CleanStart /\ pipe = PipeIdle /\ conv = ConvIdle /\ img = ImgIdle /\ CliInit
  /\ overlap = OverlapIdle /\ web = WebIdle
SpecCli == InitCli /\ [][NextCli]_vars

\* two cleaners whose calls of cleanDirectory on temp overlap
NextOverlap ==
  \/ \E r \in Cleaners : OverlapReaddir(r) /\ UNCHANGED <<ocrVars, batchVars, cleanVars, pipeVars, convVars, img, cli, web>>
  \/ \E r \in Cleaners : OverlapStat(r) /\ UNCHANGED <<ocrVars, batchVars, cleanVars, pipeVars, convVars, img, cli, web>>
  \/ \E r \in Cleaners : OverlapDirectorySize(r) /\ UNCHANGED <<ocrVars, batchVars, cleanVars, pipeVars, convVars, img, cli, web>>
  \/ \E r \in Cleaners : OverlapUnlink(r) /\ UNCHANGED <<ocrVars, batchVars, cleanVars, pipeVars, convVars, img, cli, web>>
  \/ \E r \in Cleaners : OverlapRmdir(r) /\ UNCHANGED <<ocrVars, batchVars, cleanVars, pipeVars, convVars, img, cli, web>>
  \/ \E r \in Cleaners : OverlapRimraf(r) /\ UNCHANGED <<ocrVars, batchVars, cleanVars, pipeVars, convVars, img, cli, web>>
InitOverlap ==
  OcrIdle /\ BatchIdle /\ CleanIdle /\ pipe = PipeIdle /\ conv = ConvIdle /\ img = ImgIdle
  /\ cli = CliIdle /\ OverlapInit /\ web = WebIdle
SpecOverlap == InitOverlap /\ [][NextOverlap]_vars

\* the server's uploads, downloads, timers and sweeps.  Time goes on, and
\* a timer that is due fires: Node runs every timer that is due.
WebFrame == UNCHANGED <<ocrVars, batchVars, cleanVars, pipeVars, convVars, img, cli, overlap>>
NextWeb ==
  \/ WebTick /\ WebFrame
  \/ UploadStored /\ WebFrame
  \/ \E s \in SessionIds : TimerFires(s) /\ WebFrame
  \/ Sweep /\ WebFrame
  \/ \E id \in RequestedIds : \E format \in Formats : Download(id, format) /\ WebFrame
InitWeb ==
  OcrIdle /\ BatchIdle /\ CleanIdle /\ pipe = PipeIdle /\ conv = ConvIdle /\ img = ImgIdle
  /\ cli = CliIdle /\ overlap = OverlapIdle /\ WebInit
SpecWeb ==
  /\ InitWeb /\ [][NextWeb]_vars
  /\ WF_vars(WebTick /\ WebFrame)
  /\ \A s \in SessionIds : WF_vars(TimerFires(s) /\ WebFrame)

\* the server: one upload being converted while the scheduled cleaner runs
NextRace ==
  \/ NextClean
  \/ UploadStarts /\ UNCHANGED <<ocrVars, batchVars, convVars, toolVars>>
  \/ UploadMissing /\ UNCHANGED <<ocrVars, batchVars, convVars, toolVars>>
  \/ Rasterized /\ UNCHANGED <<ocrVars, batchVars, convVars, toolVars>>
  \/ RasterizeFails /\ UNCHANGED <<ocrVars, batchVars, convVars, toolVars>>
  \/ PageRecognized /\ UNCHANGED <<ocrVars, batchVars, convVars, toolVars>>
  \/ PipelineReturns /\ UNCHANGED <<ocrVars, batchVars, convVars, toolVars>>
InitRace == OcrIdle /\ BatchIdle /\ RaceInit /\ conv = ConvIdle /\ ToolsIdle
SpecRace == InitRace /\ [][NextRace]_vars

(***************************************************************************)
(* ocrImages: the text it writes                                           *)
(***************************************************************************)
\* The files of the folder that pass the extension and the prefix filter.
Passing ==
  { f \in folder.entries : /\ ToLowerCase(ExtName(f)) \in ImageExtensions
                           /\ StartsWith(f, PagePrefix) }
\* What may stand between the separator of a block and its closing newline.
Bodies ==
  { Trim(t) : t \in RawTexts } \cup
  { <<"[ERROR: Could not process this page - ", m, "]">> : m \in RecognizeErrors }
\* text is the blocks numbered k, k + 1, ..., P and nothing else
RECURSIVE IsBlocks(_, _, _)
IsBlocks(text, k, P) ==
  IF k > P THEN text = <<>>
  ELSE \E body \in Bodies :
         LET b == Replace(pageSeparator, NumberToString(k)) \o body \o <<"\n">>
         IN  /\ Len(text) >= Len(b)
             /\ SubSeq(text, 1, Len(b)) = b
             /\ IsBlocks(SubSeq(text, Len(b) + 1, Len(text)), k + 1, P)

\* C1: when ocrImages returns for a folder with P >= 1 passing files, the
\* text it wrote is exactly P blocks, the k-th being the separator carrying
\* k, then a trimmed text or the error marker, then a newline.
C1_ExactlyPBlocks ==
  ocrPc = "returned" =>
    /\ Cardinality(Passing) >= 1
    /\ outFile.written
    /\ IsBlocks(outFile.text, 1, Cardinality(Passing))

\* ocrImages has returned for three pages, one of which failed and one of
\* which had text to trim
C1_Witness ==
  /\ ocrPc = "returned"
  /\ Cardinality(Passing) = MaxFiles
  /\ \E k \in DOMAIN recog : ~recog[k].ok
  /\ \E k \in DOMAIN recog : recog[k].ok /\ Trim(recog[k].text) # recog[k].text

\* The block page k must have got, given what recognition answered for it.
BlockOf(k) ==
  Replace(pageSeparator, NumberToString(k)) \o
    (IF recog[k].ok THEN Trim(recog[k].text)
     ELSE <<"[ERROR: Could not process this page - ", recog[k].message, "]">>) \o
    <<"\n">>
RECURSIVE BlocksUpTo(_)
BlocksUpTo(n) == IF n = 0 THEN <<>> ELSE BlocksUpTo(n - 1) \o BlockOf(n)

\* C2: whichever pages fail recognition, ocrImages does not throw for it:
\* each failing page has the error marker at its own position, every other
\* page its text, the loop goes on to the last page, and the file is
\* written with all P blocks.
C2_FailingPagesKeepTheirPlace ==
  /\ ocrPc = "thrown" => ocrErr \notin RecognizeErrors
  /\ ocrPc \in {"loop", "terminate", "returned"} =>
       /\ Len(recog) = idx
       /\ allText = BlocksUpTo(idx)
  /\ ocrPc = "loop" => idx < Cardinality(Passing)
  /\ ocrPc \in {"terminate", "returned"} => idx = Cardinality(Passing)
  /\ ocrPc = "returned" => outFile = Written(BlocksUpTo(Cardinality(Passing)))

\* ocrImages has returned although every one of its pages failed
C2_Witness ==
  /\ ocrPc = "returned"
  /\ Len(recog) >= 2
  /\ \A k \in DOMAIN recog : ~recog[k].ok
  /\ outFile.written

(***************************************************************************)
(* batchProcessPdfs: scheduling and bookkeeping                            *)
(***************************************************************************)
\* The documents whose callback has started and has not yet recorded its
\* result; the pipeline of such a document may still be running.
Started == { d \in DOMAIN docState : docState[d] # "pending" }
Unfinished == { d \in Started : docState[d] # "recorded" }
\* The chunk a document belongs to when the documents are cut, in input
\* order, into consecutive chunks of size concurrent.
ChunkOf(d) == (d - 1) \div concurrent

\* C3: at every moment at most concurrencyLimit pipelines have started and
\* not yet finished.
C3_AtMostLimitRunning == Cardinality(Unfinished) <= concurrent

\* as many pipelines as the limit allows are running at once, out of more
\* documents than that
C3_Witness ==
  /\ concurrent = MaxConcurrent
  /\ Len(pdfFiles) > concurrent
  /\ Cardinality({ d \in DOMAIN docState : docState[d] = "running" }) = concurrent

\* C4: the chunks are consecutive runs of concurrencyLimit documents in
\* input order, and no document of a later chunk starts before every
\* document of every earlier chunk has finished, by success or by failure.
C4_ChunkBarrier ==
  /\ batchPc = "await" =>
       /\ bi % concurrent = 0
       /\ Range(batch) = { d \in 1..Len(pdfFiles) : ChunkOf(d) = bi \div concurrent }
       /\ \A k \in DOMAIN batch : batch[k] = bi + k
       /\ Unfinished \subseteq Range(batch)
  /\ \A d, e \in DOMAIN docState :
       ChunkOf(d) < ChunkOf(e) /\ e \in Started => docState[d] = "recorded"

\* the second chunk is running after a first chunk of which one document
\* failed and one succeeded
C4_Witness ==
  /\ concurrent = MaxConcurrent
  /\ Len(pdfFiles) > concurrent
  /\ docState[Len(pdfFiles)] = "running"
  /\ Len(errors) = 1
  /\ Len(results) = 1

\* How often a document's file name is found in a list of records.
Times(items, name) == Cardinality({ k \in DOMAIN items : items[k].input = name })

\* C5: when batchProcessPdfs returns, every document is once in results or
\* errors, errors holds exactly the documents whose pipeline threw, each
\* with the thrown message and a duration, and no failure of a document
\* keeps another from being run or ends the batch.
C5_EveryDocumentOnce ==
  /\ batchPc = "returned" =>
       /\ Len(results) + Len(errors) = Len(pdfFiles)
       /\ \A d \in DOMAIN pdfFiles :
            /\ docState[d] = "recorded"
            /\ Times(results, pdfFiles[d].filename) +
                 Times(errors, pdfFiles[d].filename) = 1
            /\ thrown[d] # NoError <=> Times(errors, pdfFiles[d].filename) = 1
            /\ \A k \in DOMAIN errors :
                 errors[k].input = pdfFiles[d].filename =>
                   /\ errors[k].error = thrown[d]
                   /\ errors[k].duration \in 0..btime
       /\ summary.content.successful = Len(results)
       /\ summary.content.failed = Len(errors)
       /\ summary.content.totalFiles = Len(pdfFiles)
  /\ batchPc = "thrown" => pdfFiles = <<>>

\* three documents at limit two, the first of which failed: two succeeded,
\* one is in errors
C5_Witness ==
  /\ batchPc = "returned"
  /\ concurrent = MaxConcurrent
  /\ Len(pdfFiles) > concurrent
  /\ thrown[1] # NoError
  /\ Len(errors) = 1
  /\ Len(results) = Len(pdfFiles) - 1

\* C6: for a non-empty document set the summary is written once, only
\* after every document of every chunk has recorded its result, and also
\* when some or all documents failed.
C6_SummaryOnceAtTheEnd ==
  /\ summaryWrites <= 1
  /\ summary.exists <=> summaryWrites = 1
  /\ summary.exists =>
       /\ \A d \in DOMAIN pdfFiles : docState[d] = "recorded"
       /\ summary.content = generateSummary(results, errors)
       /\ summary.content.totalFiles = Len(pdfFiles)
  /\ pdfFiles # <<>> /\ batchPc # "await" => batchPc = "returned" /\ summary.exists

\* the summary is there although every document failed
C6_Witness ==
  /\ batchPc = "returned"
  /\ summary.exists
  /\ results = <<>>
  /\ Len(errors) = Len(pdfFiles)
  /\ Len(pdfFiles) > concurrent

(***************************************************************************)
(* FileCleaner: what a run counts, removes and reports                     *)
(***************************************************************************)
\* The runs that are over, with the clock still where it was when they
\* started: every age such a run saw is the age the entry has now.
RunsAtOneTime == { k \in DOMAIN runs : runs[k].done /\ runs[k].startedAt = now }

\* The entries of an area that are not the placeholder, match the area's
\* pattern when it has one, and are older than the area's threshold.
Eligible(a, entries) ==
  { e \in entries :
      /\ e.name # GitKeep
      /\ FilePattern(a) = NoPattern \/ EndsWith(e.name, FilePattern(a))
      /\ now - e.mtime > (IF a = "temp" THEN options.retention[a]
                          ELSE options.retention[a] * HoursPerDay) }

\* C7: two dry runs in a row of one cleaner on unchanged storage (and an
\* unchanged clock) return the same statistics: counts, totalSizeFreed,
\* errors.
C7_DryRunTwiceSameStats ==
  \A j, k \in RunsAtOneTime :
    options.dryRun /\ runs[j].before = runs[k].after =>
      runs[j].returned = runs[k].returned

\* C8: a dry run removes nothing: every entry of every area is still there,
\* whatever its age.
C8_DryRunLeavesStorage ==
  options.dryRun =>
    \A k \in DOMAIN runs : runs[k].before = fs /\ runs[k].after = fs

\* a dry run is over that counted an old directory of temp, and the
\* directory is still there
C8_Witness ==
  /\ options.dryRun
  /\ \E k \in DOMAIN runs :
       /\ runs[k].done
       /\ runs[k].returned.cleaned["temp"] = 1
       /\ runs[k].returned.totalSizeFreed > 0
  /\ fs["temp"].entries # {}

\* C9 as stated: an entry is counted, and in a real run deleted, exactly
\* when it is not the placeholder, matches the pattern and is older than
\* the threshold.
C9_CountedIffEligible ==
  \A k \in RunsAtOneTime : \A a \in Areas :
    LET before == runs[k].before[a].entries
        old == Eligible(a, before)
    IN  /\ runs[k].returned.cleaned[a] = Cardinality(old)
        /\ runs[k].after[a].entries = IF options.dryRun THEN before ELSE before \ old

\* C9, amended: an entry is counted exactly when it is not the placeholder,
\* matches the pattern, is older than the threshold (strictly) and, in a
\* real run, its deletion succeeds; a real run removes exactly the entries
\* it counts, a dry run none; every other entry, one at the threshold
\* included, stays and is not counted.
C9_CountedIffEligibleAndDeleted ==
  \A k \in RunsAtOneTime : \A a \in Areas :
    LET before == runs[k].before[a].entries
        old == Eligible(a, before)
        counted == { e \in old : options.dryRun \/ ~e.locked }
    IN  /\ runs[k].returned.cleaned[a] = Cardinality(counted)
        /\ runs[k].after[a].entries =
             IF options.dryRun THEN before ELSE before \ counted
        /\ \A e \in before : now - e.mtime <= MaxAge(a, options.retention) =>
             e \in runs[k].after[a].entries /\ e \notin counted

\* a real run is over that counted and removed one old entry and could not
\* remove another, which is still there and is not counted
C9_Witness ==
  /\ ~options.dryRun
  /\ \E k \in RunsAtOneTime :
       /\ \E a \in Areas : \E e \in Eligible(a, runs[k].before[a].entries) :
            /\ ~e.locked
            /\ e \notin runs[k].after[a].entries
            /\ runs[k].returned.cleaned[a] = 1
       /\ \E a \in Areas : \E e \in Eligible(a, runs[k].before[a].entries) :
            /\ e.locked
            /\ e \in runs[k].after[a].entries
            /\ runs[k].returned.cleaned[a] = 0

(***************************************************************************)
(* The cleaner and a conversion in flight                                  *)
(***************************************************************************)
\* C10: while a conversion is in flight, from the making of its images
\* folder until its last page is recognized, the folder is in temp: no run
\* of the cleaner removes it.
C10_CleanerSparesFolderInFlight ==
  InFlight => UploadImagesFolder \in Names(fs["temp"].entries)

(***************************************************************************)
(* ocrImages: the Tesseract worker                                         *)
(***************************************************************************)
\* C11: when ocrImages returns or throws, the worker it created, if any, is
\* terminated, also when recognition of pages has failed.
C11_WorkerTerminatedOnExit ==
  /\ ocrPc \in {"returned", "thrown"} => worker # "active"
  /\ ocrPc = "returned" => worker = "terminated"
  /\ worker = "active" => ocrPc \in {"loop", "terminate"}

\* ocrImages has thrown after pages failed recognition, and its worker is
\* terminated
C11_Witness ==
  /\ ocrPc = "thrown"
  /\ worker = "terminated"
  /\ \E k \in DOMAIN recog : ~recog[k].ok

(***************************************************************************)
(* batchProcessPdfs: the workers of the pipelines                          *)
(***************************************************************************)
\* The documents whose pipeline holds a worker that is not yet terminated.
ActiveSessions == { d \in DOMAIN session : session[d] = "active" }

\* C12: a pipeline has at most one worker, its own, and only while it runs;
\* the workers created and not yet terminated never outnumber
\* concurrencyLimit.
C12_SessionsWithinLimit ==
  /\ DOMAIN session = DOMAIN docState
  /\ Cardinality(ActiveSessions) <= concurrent
  /\ \A d \in DOMAIN session :
       /\ session[d] = "active" => docState[d] = "running" /\ d \in Range(batch)
       /\ docState[d] = "pending" => session[d] = "none"
       /\ docState[d] = "resolved" => session[d] = "terminated"
       /\ thrown[d] = NoError /\ docState[d] = "recorded" => session[d] = "terminated"

\* as many workers as the limit allows are active at once, with more
\* documents than that to convert
C12_Witness ==
  /\ concurrent = MaxConcurrent
  /\ Cardinality(ActiveSessions) = concurrent
  /\ Len(pdfFiles) > concurrent


(***************************************************************************)
(* convertPdfToText                                                        *)
(***************************************************************************)
\* C13: when rasterization has returned with zero saved pages, the
\* recognizer is not called for the document and the conversion fails.
C13_ZeroPagesSkipRecognizer ==
  conv.images.returned /\ conv.images.saved = {}
    => /\ "recognize" \notin Range(conv.log)
       /\ conv.pc \in {"caught", "thrown"}

\* C14: when convertPdfToText has thrown, the error is the one of the stage
\* that failed, no cleanup was attempted, and the images folder is as it was
\* at the moment of the failure.
C14_FailureLeavesFolder ==
  /\ conv.pc = "thrown" => /\ conv.error \in ConvErrors
                           /\ conv.folder = conv.atFailure
                           /\ "cleanup" \notin Range(conv.log)
  /\ conv.pc = "caught" => conv.folder = conv.atFailure
C14_Witness ==
  /\ conv.pc = "thrown"
  /\ conv.error = "writeFileSync failed"
  /\ PageName(1) \in conv.folder.entries
  /\ ~conv.keepImages

\* C15: the stages of one call are a prefix of rasterize, recognize, cleanup;
\* the recognizer is called only when rasterization has returned, and until
\* the text is written no cleanup is attempted and the folder made for the
\* images stays.
C15_StagesInOrder ==
  /\ \E n \in 0..3 : conv.log = SubSeq(<<"rasterize", "recognize", "cleanup">>, 1, n)
  /\ "recognize" \in Range(conv.log) => conv.images.returned
  /\ "cleanup" \in Range(conv.log) => conv.written
  /\ ~conv.written /\ conv.pc \in {"rasterizing", "recognizing"}
       => conv.folder.exists
  /\ ~conv.written /\ conv.images.returned
       => conv.folder.exists /\ conv.images.saved \subseteq conv.folder.entries
C15_Witness ==
  /\ conv.pc = "returned"
  /\ conv.log = <<"rasterize", "recognize", "cleanup">>
  /\ ~conv.folder.exists
  /\ Cardinality(conv.images.saved) = MaxPages

\* C16: once the text is written the call can only return; it returns with
\* the folder and the saved images in place and no removal attempted when
\* keepImages is set, with the removal attempted when it is not, the folder
\* then being gone unless the removal failed.
C16_CleanupFollowsKeepImages ==
  /\ conv.written => conv.pc \in {"cleanup", "returned"} /\ conv.error = NoError
  /\ conv.pc = "returned"
       => /\ conv.written
          /\ conv.keepImages
               => /\ conv.folder.exists
                  /\ conv.images.saved \subseteq conv.folder.entries
                  /\ conv.folder.entries # {}
                  /\ "cleanup" \notin Range(conv.log)
          /\ ~conv.keepImages
               => /\ "cleanup" \in Range(conv.log)
                  /\ ~conv.rmFails => ~conv.folder.exists
C16_Witness ==
  /\ conv.pc = "returned"
  /\ ~conv.keepImages
  /\ conv.rmFails
  /\ conv.folder.exists
  /\ conv.images.saved # {}


(***************************************************************************)
(* Page order                                                              *)
(***************************************************************************)
\* The page numbers whose images the folders of the model may hold, and
\* the page number of such an image.
PageOrdinals == {1, 2, 10, 999, 1000}
IsPageImage(f) == \E n \in PageOrdinals : f = PageName(n)
Ordinal(f) == CHOOSE n \in PageOrdinals : f = PageName(n)

\* C17: the images convertPdfToImages has saved are recognized in ascending
\* page number, page counts above 999 included.
C17_AscendingOrdinal ==
  \A i, j \in DOMAIN files :
    i < j /\ IsPageImage(files[i]) /\ IsPageImage(files[j])
      => Ordinal(files[i]) < Ordinal(files[j])


(***************************************************************************)
(* FileCleaner: deletion failures, dry and real runs, the statistics       *)
(***************************************************************************)
\* The errors run k has appended to the error list.
RunErrors(k) ==
  SubSeq(runs[k].returned.errors, Len(runs[k].statsAtStart.errors) + 1,
         Len(runs[k].returned.errors))
\* The old entries of area a that run k met and could not remove.
Failed(k, a) == { e \in Eligible(a, runs[k].before[a].entries) : e.locked }

\* C18: a real run whose deletion of an entry fails comes to its end all the
\* same; the failure is in the error list once, the entry stays and is in
\* neither the count nor the bytes its area's cleaner returns, and every
\* other old entry of the area is removed and counted.
C18_DeletionFailureRecorded ==
  \A k \in RunsAtOneTime : ~runs[k].dryRun =>
    \A a \in Areas :
      LET old == Eligible(a, runs[k].before[a].entries)
          failed == Failed(k, a)
      IN  /\ \A e \in failed :
               /\ Cardinality({ i \in DOMAIN RunErrors(k) :
                                  /\ RunErrors(k)[i][2] = "delete failed"
                                  /\ RunErrors(k)[i][1] = e.name }) = 1
               /\ e \in runs[k].after[a].entries
          /\ \A e \in old \ failed : e \notin runs[k].after[a].entries
          /\ runs[k].results[a] = [count |-> Cardinality(old \ failed),
                                   size |-> SumSizes(old \ failed)]
\* a real run is over in which, in one area, one old entry could not be
\* removed and another was removed and counted
C18_Witness ==
  \E k \in RunsAtOneTime : \E a \in Areas :
    /\ ~runs[k].dryRun
    /\ Failed(k, a) # {}
    /\ Eligible(a, runs[k].before[a].entries) \ Failed(k, a) # {}
    /\ runs[k].results[a].count = 1
    /\ Len(RunErrors(k)) = 1


\* The bytes the four areas' cleaners of a run have returned so far.
BytesReturned(r) ==
  r.results["uploads"].size + r.results["output"].size +
  r.results["temp"].size + r.results["logs"].size
\* The areas whose directory a run could not read.
UnreadableAreas(k) ==
  { a \in Areas : runs[k].before[a].exists /\ ~runs[k].before[a].readable }
\* How many entries a real run could not remove.
FailedCount(k) ==
  IF runs[k].dryRun THEN 0
  ELSE Cardinality(Failed(k, "uploads")) + Cardinality(Failed(k, "output")) +
       Cardinality(Failed(k, "temp")) + Cardinality(Failed(k, "logs"))

\* C20: in the first runCleanup of a new cleaner, whatever the order in
\* which the four areas' cleaners take their steps, totalSizeFreed is at
\* every moment the sum of the bytes the areas have returned; when the run
\* is over each area's counter is the count its cleaner returned, and the
\* error list holds one error for each directory that could not be read and
\* one for each entry that could not be removed, of whatever area.
C20_StatsAggregateAreas ==
  Len(runs) >= 1 =>
    LET r == runs[1]
    IN  /\ Len(runs) = 1 => stats.totalSizeFreed = BytesReturned(r)
        /\ r.done =>
             /\ \A a \in Areas : r.returned.cleaned[a] = r.results[a].count
             /\ r.returned.totalSizeFreed = BytesReturned(r)
        /\ 1 \in RunsAtOneTime =>
             /\ Len(r.returned.errors) = Cardinality(UnreadableAreas(1)) + FailedCount(1)
             /\ \A a \in UnreadableAreas(1) :
                  \E i \in DOMAIN r.returned.errors :
                    /\ r.returned.errors[i][2] = "readdir failed"
                    /\ r.returned.errors[i][1] = a
             /\ ~r.dryRun =>
                  \A a \in Areas : \A e \in Failed(1, a) :
                    \E i \in DOMAIN r.returned.errors :
                      /\ r.returned.errors[i][2] = "delete failed"
                      /\ r.returned.errors[i][1] = e.name
\* the first run of a cleaner is over; two areas returned bytes, and the
\* error list holds errors of two areas
C20_Witness ==
  /\ Len(runs) = 1
  /\ runs[1].done
  /\ Cardinality({ a \in Areas : runs[1].results[a].size > 0 }) = 2
  /\ runs[1].returned.totalSizeFreed = BytesReturned(runs[1])
  /\ Len(runs[1].returned.errors) >= 1


\* A dry run j and a real run k, both over, that started from one storage
\* at one clock value with one retention.
SameStart(j, k) ==
  /\ j \in RunsAtOneTime /\ k \in RunsAtOneTime
  /\ runs[j].dryRun /\ ~runs[k].dryRun
  /\ runs[j].before = runs[k].before

\* C19 as stated: whether or not deletions fail, the dry run returns for
\* every area the count and the bytes the real run returns, and removes
\* nothing.
C19_DryRunReturnsWhatRealRunReturns ==
  \A j, k \in DOMAIN runs : SameStart(j, k) =>
    /\ runs[j].after = runs[j].before
    /\ \A a \in Areas : runs[j].results[a] = runs[k].results[a]

\* C19, amended: the dry run removes nothing and returns for every area the
\* count and the bytes of all its old entries; the real run returns those
\* less the entries whose deletion failed, which stay, and removes the
\* others.  The two returns are the same exactly when no deletion fails.
C19_DryRunCountsFailedDeletions ==
  \A j, k \in DOMAIN runs : SameStart(j, k) =>
    /\ runs[j].after = runs[j].before
    /\ \A a \in Areas :
         LET old == Eligible(a, runs[k].before[a].entries)
         IN  /\ runs[j].results[a] =
                  [count |-> Cardinality(old), size |-> SumSizes(old)]
             /\ runs[k].results[a] =
                  [count |-> runs[j].results[a].count - Cardinality(Failed(k, a)),
                   size |-> runs[j].results[a].size - SumSizes(Failed(k, a))]
             /\ runs[k].after[a].entries =
                  runs[k].before[a].entries \ (old \ Failed(k, a))
             /\ runs[j].results[a] = runs[k].results[a] <=> Failed(k, a) = {}
\* a dry run and then a real run from the same storage, in which one old
\* entry could not be removed and another was
C19_Witness ==
  \E j, k \in DOMAIN runs : \E a \in Areas :
    /\ SameStart(j, k)
    /\ j < k
    /\ Failed(k, a) # {}
    /\ runs[j].results[a].count = 2
    /\ runs[k].results[a].count = 1


(***************************************************************************)
(* FileCleaner: the placeholder, the pattern of logs, areas that cannot be *)
(* listed                                                                  *)
(***************************************************************************)
\* What cleanDirectory returns when it has counted nothing.
NothingCleaned == [count |-> 0, size |-> 0]

\* C21: the placeholder .gitkeep of an area is never looked at by a run: it
\* is still in the area during and after every run, real or dry, whatever
\* its age and the threshold, and a run over an area that holds nothing
\* else returns count 0 and bytes 0 for it.
C21_PlaceholderKept ==
  /\ \A a \in Areas : area[a].cur # GitKeep
  /\ \A k \in DOMAIN runs : \A a \in Areas :
       /\ \A e \in runs[k].before[a].entries :
            e.name = GitKeep => e \in fs[a].entries /\ e \in runs[k].after[a].entries
       /\ runs[k].done /\ Names(runs[k].before[a].entries) = {GitKeep}
            => runs[k].results[a] = NothingCleaned
\* a real run with threshold 0 is over whose uploads held the placeholder
\* only, older than any threshold, next to an area where an entry was removed
C21_Witness ==
  \E k \in DOMAIN runs :
    /\ runs[k].done /\ ~runs[k].dryRun
    /\ options.retention["uploads"] = 0
    /\ Names(runs[k].before["uploads"].entries) = {GitKeep}
    /\ \A e \in runs[k].before["uploads"].entries : now - e.mtime > 0
    /\ runs[k].after["uploads"] = runs[k].before["uploads"]
    /\ runs[k].results["uploads"] = NothingCleaned
    /\ \E a \in Areas : runs[k].results[a].count = 1

\* C22: in logs an entry whose name does not end in .log is never removed
\* and never counted, however old; a run returns for logs the count and
\* bytes of its old .log entries only.  In the three other areas the name
\* plays no part: every old entry that can be removed is removed and
\* counted.
C22_OnlyLogsFiltersByName ==
  /\ \A k \in DOMAIN runs :
       \A e \in runs[k].before["logs"].entries :
         ~EndsWith(e.name, LogSuffix)
           => e \in fs["logs"].entries /\ e \in runs[k].after["logs"].entries
  /\ \A k \in RunsAtOneTime :
       LET logs == { e \in runs[k].before["logs"].entries :
                       /\ EndsWith(e.name, LogSuffix)
                       /\ now - e.mtime > MaxAge("logs", options.retention)
                       /\ runs[k].dryRun \/ ~e.locked }
       IN  /\ runs[k].results["logs"] =
                [count |-> Cardinality(logs), size |-> SumSizes(logs)]
           /\ \A a \in Areas \ {"logs"} :
                LET old == { e \in runs[k].before[a].entries :
                               /\ e.name # GitKeep
                               /\ now - e.mtime > MaxAge(a, options.retention)
                               /\ runs[k].dryRun \/ ~e.locked }
                IN  /\ runs[k].results[a] =
                         [count |-> Cardinality(old), size |-> SumSizes(old)]
                    /\ ~runs[k].dryRun =>
                         \A e \in old : e \notin runs[k].after[a].entries
\* a real run is over that removed the old .log file of logs and left the
\* older file of another name beside it
C22_Witness ==
  \E k \in RunsAtOneTime :
    /\ ~runs[k].dryRun
    /\ Cardinality(runs[k].before["logs"].entries) = 2
    /\ Cardinality(runs[k].after["logs"].entries) = 1
    /\ \A e \in runs[k].after["logs"].entries : ~EndsWith(e.name, LogSuffix)
    /\ runs[k].results["logs"].count = 1


\* The entries of area a that run k, at an unchanged clock, counts: not the
\* placeholder, matching the area's pattern, older than the threshold and,
\* in a real run, removable.
CountedBy(k, a) ==
  { e \in Eligible(a, runs[k].before[a].entries) : runs[k].dryRun \/ ~e.locked }

\* C23: a run comes to its end whatever the state of the areas'
\* directories.  An area whose directory is missing returns count 0 and
\* leaves no error; one whose directory cannot be listed returns count 0 and
\* leaves one error naming it; every other area returns the count and bytes
\* of its own old entries, and loses exactly those in a real run.
C23_AreaSkippedOthersCleaned ==
  /\ \A a \in Areas :
       ~fs[a].exists \/ ~fs[a].readable
         => area[a].pc \in {"idle", "readdir", "done"} /\ area[a].cleaned = NothingCleaned
  /\ \A k \in RunsAtOneTime : \A a \in Areas :
       LET dir == runs[k].before[a]
           named == { i \in DOMAIN RunErrors(k) :
                        /\ RunErrors(k)[i][2] = "readdir failed"
                        /\ RunErrors(k)[i][1] = a }
       IN  /\ ~dir.exists => runs[k].results[a] = NothingCleaned /\ named = {}
           /\ dir.exists /\ ~dir.readable
                => runs[k].results[a] = NothingCleaned /\ Cardinality(named) = 1
           /\ dir.exists /\ dir.readable
                => /\ named = {}
                   /\ runs[k].results[a] = [count |-> Cardinality(CountedBy(k, a)),
                                            size |-> SumSizes(CountedBy(k, a))]
                   /\ runs[k].after[a].entries =
                        IF runs[k].dryRun THEN dir.entries
                        ELSE dir.entries \ CountedBy(k, a)
                   /\ runs[k].returned.cleaned[a] = Cardinality(CountedBy(k, a))
\* a real run is over with logs not listable, its error recorded, and an
\* entry of another area removed and counted
C23_Witness ==
  \E k \in RunsAtOneTime :
    /\ ~runs[k].dryRun
    /\ UnreadableAreas(k) = {"logs"}
    /\ Len(RunErrors(k)) = 1
    /\ \E a \in Areas \ {"logs"} :
         /\ CountedBy(k, a) # {}
         /\ runs[k].results[a].count = Cardinality(CountedBy(k, a))
         /\ runs[k].after[a].entries # runs[k].before[a].entries
\* a run is over whose logs directory was missing: nothing recorded for it
C23_WitnessMissing ==
  \E k \in RunsAtOneTime :
    /\ ~runs[k].before["logs"].exists
    /\ RunErrors(k) = <<>>
    /\ \E a \in Areas : runs[k].results[a].count > 0


(***************************************************************************)
(* batchProcessPdfs: the documents of the input                            *)
(***************************************************************************)
\* The entries of a directory whose extension is .pdf in any case.
PdfEntries(entries) == { f \in entries : ToLowerCase(ExtName(f)) = PdfExt }

\* C24: a directory resolves to its entries of extension .pdf in any case,
\* each once; a file of extension .pdf resolves to itself alone; a file of
\* another extension fails as invalid input and a directory without PDF as
\* holding no documents, and a call that has failed so has started no
\* document and written no summary.
C24_InputResolution ==
  /\ batchPc \notin {"off", "start", "thrown"} =>
       /\ input.kind = "dir" =>
            /\ { pdfFiles[d].filename : d \in DOMAIN pdfFiles } = PdfEntries(input.entries)
            /\ Len(pdfFiles) = Cardinality(PdfEntries(input.entries))
       /\ input.kind = "file" =>
            /\ ToLowerCase(ExtName(input.name)) = PdfExt
            /\ Len(pdfFiles) = 1 /\ pdfFiles[1].filename = input.name
       /\ input.kind # "missing"
       /\ pdfFiles # <<>>
  /\ batchPc = "thrown" =>
       /\ input.kind = "file" =>
            ToLowerCase(ExtName(input.name)) # PdfExt /\ batchErr = InvalidInput
       /\ input.kind = "dir" =>
            PdfEntries(input.entries) = {} /\ batchErr = NoDocumentsFound
       /\ pdfFiles = <<>> /\ docState = <<>> /\ session = <<>>
       /\ results = <<>> /\ errors = <<>> /\ completed = 0
       /\ summaryWrites = 0 /\ summary = NoSummary
  /\ batchErr # NoError <=> batchPc = "thrown"
\* a directory holding a.pdf, b.PDF and notes.txt has resolved to the two
\* PDFs, and the run is over
C24_Witness ==
  /\ input.kind = "dir"
  /\ Cardinality(input.entries) = 3
  /\ \E f \in input.entries : ExtName(f) = <<".", "P", "D", "F">>
  /\ \E f \in input.entries : ToLowerCase(ExtName(f)) # PdfExt
  /\ Len(pdfFiles) = 2
  /\ summaryWrites = 1
\* a directory without PDF has made the call fail
C24_WitnessEmpty ==
  /\ batchPc = "thrown" /\ batchErr = NoDocumentsFound
  /\ input.kind = "dir" /\ input.entries # {}
\* a file that is no PDF has made the call fail
C24_WitnessInvalid ==
  /\ batchPc = "thrown" /\ batchErr = InvalidInput
  /\ input.kind = "file"


(***************************************************************************)
(* convertPdfToImages                                                      *)
(***************************************************************************)
\* C25: when the PDF is not there the call fails with "PDF file not found"
\* and has done nothing: the output folder is as it was at the start (not
\* made when it was missing) and pdf2pic has not been called.
C25_MissingSourceNoSideEffect ==
  /\ ~img.pdfExists /\ img.argsValid /\ img.pc \notin {"off", "main"}
       => img.error = "PDF file not found" /\ img.pc \in {"exited", "thrown"}
  /\ img.error = "PDF file not found"
       => /\ ~img.pdfExists
          /\ img.folder = img.atStart
          /\ ~img.called /\ img.results = <<>> /\ img.savedImages = <<>>
          /\ ~img.returned
\* the function has thrown for a missing PDF and the folder, missing at the
\* start, is still missing
C25_Witness ==
  /\ img.pc = "thrown"
  /\ img.error = "PDF file not found"
  /\ ~img.atStart.exists /\ ~img.folder.exists

\* The page number a page name stands for.
PageOf(name) == CHOOSE k \in 1..(MaxPages + 1) : PageName(k) = name

\* C26: the list holds page names only, in strictly ascending page number,
\* each for a result the rasterizer returned with a file or with data; a
\* result without either is passed by and is not in the list, and the loop
\* goes on to the last result before the list is returned; a file of the
\* rasterizer that is no longer under its own name is in the folder under
\* its page name, and in the list.
C26_PagesSavedInOrder ==
  /\ \A p \in DOMAIN img.savedImages :
       \E k \in 1..img.i : /\ img.savedImages[p] = PageName(k)
                           /\ img.results[k] # "none"
                           /\ img.impl = "pdf-to-text" => img.results[k] = "file"
  /\ \A p, q \in DOMAIN img.savedImages :
       p < q => PageOf(img.savedImages[p]) < PageOf(img.savedImages[q])
  /\ \A k \in 1..img.i :
       img.results[k] = "file" /\ RasterName(k) \notin img.folder.entries
         => /\ PageName(k) \in img.folder.entries
            /\ PageName(k) \in Range(img.savedImages)
  /\ img.pc = "loop" \/ (img.returned /\ img.error = NoError)
       => img.i <= Len(img.results)
  /\ img.returned /\ img.error = NoError => img.i = Len(img.results)
\* the list is returned with the last result alone in it, the first having
\* had neither file nor data
C26_Witness ==
  /\ img.returned
  /\ Len(img.results) = MaxPages
  /\ img.results[1] = "none"
  /\ img.savedImages = <<PageName(MaxPages)>>
  /\ PageName(MaxPages) \in img.folder.entries

\* C27: when the list is returned, every name in it is the name of a file
\* of the output folder.
C27_ReturnedPathsExist ==
  img.returned =>
    \A p \in DOMAIN img.savedImages : img.savedImages[p] \in img.folder.entries

\* C29: a tool ends with exit code 1 exactly when its operation has failed
\* (an option refused, the source missing, the rasterizer failing), and with
\* exit code 0 otherwise.
C29_ExitCodeTellsFailure ==
  img.exit.exited =>
    /\ img.exit.code \in {0, 1}
    /\ img.exit.code = 1 <=> (~img.argsValid \/ img.error # NoError)


(***************************************************************************)
(* ocrImages: a folder without page images                                 *)
(***************************************************************************)
\* C28: when no file of the folder passes the extension and the prefix
\* filter, ocrImages throws "No image files found" with no worker asked for
\* and no output file written; it throws so in no other case.
C28_NoImagesNoWorkerNoOutput ==
  /\ folder.exists /\ Passing = {} /\ ocrPc \notin {"off", "start"}
       => ocrPc = "thrown" /\ ocrErr = "No image files found"
  /\ ocrErr = "No image files found"
       => /\ folder.exists /\ Passing = {}
          /\ ocrPc = "thrown"
          /\ worker = "none"
          /\ ~outFile.written
          /\ recog = <<>> /\ allText = <<>>
\* ocrImages has thrown on a folder that holds files, none of them a page
\* image
C28_Witness ==
  /\ ocrPc = "thrown"
  /\ ocrErr = "No image files found"
  /\ Cardinality(folder.entries) >= 2
  /\ worker = "none" /\ ~outFile.written


(***************************************************************************)
(* file-cleaner --report                                                   *)
(***************************************************************************)
\* C30: a run of the tool with --report reads only: the storage is what it
\* was at the start, whatever the age of its entries, no cleanup is started
\* and the statistics stay as the constructor made them; every directory it
\* has read is reported with the size of the files under it and as
\* existing, a missing one with size 0 and as not existing, and the process
\* ends with exit code 0 after the four of them.
C30_ReportOnlyReads ==
  cli.report /\ cli.pc # "off" =>
    /\ fs = cli.atStart
    /\ stats = FreshStats /\ runs = <<>>
    /\ cleanPc = "idle" /\ \A a \in Areas : area[a] = AreaIdle
    /\ \A k \in DOMAIN cli.scanned :
         LET a == cli.scanned[k]
         IN  /\ a = ReportOrder[k]
             /\ cli.usage[a].exists = fs[a].exists
             /\ cli.usage[a].size =
                  IF fs[a].exists /\ fs[a].readable THEN SumSizes(fs[a].entries) ELSE 0
    /\ \A a \in Areas \ Range(cli.scanned) : cli.usage[a] = NoUsage[a]
    /\ cli.pc = "exited" => cli.scanned = ReportOrder /\ cli.exit = Exited(0)
\* the report is over on a storage without logs directory that holds an
\* entry older than its area's threshold, which is still there
C30_Witness ==
  /\ cli.report /\ cli.pc = "exited"
  /\ ~fs["logs"].exists
  /\ cli.usage["logs"] = [size |-> 0, exists |-> FALSE]
  /\ \E a \in Areas : /\ Eligible(a, fs[a].entries) # {}
                      /\ cli.usage[a].size > 0

(***************************************************************************)
(* The retention the cleaner is configured with                            *)
(***************************************************************************)
\* The retention an area has on a command line: what the line gives for
\* it, 0 included, or else the area's default.
Configured(argv) ==
  [a \in Areas |-> IF argv.retention[a].given THEN argv.retention[a].value
                   ELSE DefaultRetention[a]]

\* C31: a retention given as 0 for an area is that area's threshold, not
\* the area's default, and an area whose retention is not given has its
\* default; so a run counts (and, when real, removes) in an area given 0
\* every entry of positive age that is not the placeholder, matches the
\* area's pattern and can be removed, and in an area not given only those
\* older than the default.
C31_ZeroRetentionIsUsed ==
  cli.pc # "off" =>
    /\ options.retention = Configured(cli.argv)
    /\ \A k \in DOMAIN runs : runs[k].done =>
         \A a \in Areas :
           LET before == runs[k].before[a].entries
               old == { e \in before :
                          /\ e.name # GitKeep
                          /\ FilePattern(a) = NoPattern
                               \/ PatternTest(FilePattern(a), e.name)
                          /\ runs[k].startedAt - e.mtime
                               > MaxAge(a, Configured(cli.argv)) }
               counted == { e \in old : cli.argv.dryRun \/ ~e.locked }
           IN  /\ runs[k].results[a].count = Cardinality(counted)
               /\ runs[k].after[a].entries =
                    IF cli.argv.dryRun THEN before ELSE before \ counted
\* a real run is over whose uploads retention was given as 0 and whose
\* output retention was not given: it removed an upload as old as the
\* default threshold, and kept an output as old as the default threshold
C31_Witness ==
  /\ cli.pc = "exited" /\ ~cli.argv.dryRun
  /\ cli.argv.retention["uploads"] = Given(0)
  /\ cli.argv.retention["output"] = Absent
  /\ \E k \in DOMAIN runs :
       /\ runs[k].done
       /\ \E e \in runs[k].before["uploads"].entries :
            /\ runs[k].startedAt - e.mtime = MaxAge("uploads", DefaultRetention)
            /\ e \notin runs[k].after["uploads"].entries
            /\ runs[k].results["uploads"].count = 1
       /\ \E e \in runs[k].before["output"].entries :
            /\ runs[k].startedAt - e.mtime = MaxAge("output", DefaultRetention)
            /\ e \in runs[k].after["output"].entries
            /\ runs[k].results["output"].count = 0

(***************************************************************************)
(* The batch: termination                                                  *)
(***************************************************************************)
\* C32: for a non-empty document set and any limit the tool passes on, 0
\* and negative limits included, a batch whose chunk loop has started
\* comes to its end: every document has been run and has recorded its
\* result, and the summary is written.
C32_BatchFinishes ==
  batchPc = "await" ~>
    /\ batchPc = "returned"
    /\ summary.exists
    /\ \A d \in DOMAIN pdfFiles : docState[d] = "recorded"

(***************************************************************************)
(* convertPdfToText: the images a call recognizes                          *)
(***************************************************************************)
\* C33: the images a call of convertPdfToText recognizes are the page
\* images its own rasterization saved, whatever earlier calls left in the
\* images folder: a call that has written its text after saving P pages
\* has written P blocks, one for each of them.
C33_RecognizesOwnPagesOnly ==
  conv.written =>
    /\ Range(conv.recognized) = conv.images.saved
    /\ Len(conv.recognized) = Cardinality(conv.images.saved)

(***************************************************************************)
(* ocrImages: the page number of a block                                   *)
(***************************************************************************)
\* C34: the page number in the separator of a block is the page number in
\* the name of the image the block was recognized from: the k-th block
\* carries k, so the k-th file recognized is page_{k:03d}, also when the
\* saved page numbers have a gap.
C34_LabelIsOrdinalOfImage ==
  ocrPc \in {"loop", "terminate", "returned"} =>
    /\ allText = BlocksUpTo(idx)
    /\ \A k \in 1..idx : IsPageImage(files[k]) => Ordinal(files[k]) = k

(***************************************************************************)
(* The batch: the paths of its documents                                   *)
(***************************************************************************)
\* C35: any two documents of a batch have different output text files and
\* different temporary images folders, so that no two pipelines of a chunk
\* work on the same file or folder.
C35_DocumentsHaveOwnPaths ==
  \A d, e \in DOMAIN pdfFiles :
    d # e => /\ OutputTextFile(pdfFiles[d]) # OutputTextFile(pdfFiles[e])
             /\ TempImagesFolder(pdfFiles[d]) # TempImagesFolder(pdfFiles[e])

(***************************************************************************)
(* Two cleaners at work on one directory: who counts what                  *)
(***************************************************************************)
\* The entries the two calls found old enough to go when they started.
OverlapEligible ==
  { e \in overlap.atStart :
      /\ e.name # GitKeep
      /\ TooOld(Epoch - e.mtime, MaxAge("temp", DefaultRetention)) }

\* C36: when two real cleanDirectory calls overlap on a directory, no entry
\* is counted by both; the call that comes second to an entry skips it or
\* records an error for it; and when both calls have returned, every entry
\* that was old enough is gone and the two counts add up to the number of
\* these entries.
C36_OverlapCountsOnce ==
  /\ overlap.call["scheduled"].counted \cap overlap.call["manual"].counted = {}
  /\ \A r \in Cleaners :
       /\ overlap.call[r].counted \subseteq Names(OverlapEligible)
       /\ overlap.call[r].cleaned.count = Cardinality(overlap.call[r].counted)
  /\ (\A r \in Cleaners : overlap.call[r].pc = "return") =>
       /\ overlap.dir = overlap.atStart \ OverlapEligible
       /\ overlap.call["scheduled"].cleaned.count
            + overlap.call["manual"].cleaned.count = Cardinality(OverlapEligible)

(***************************************************************************)
(* FileCleaner: the age of what is removed                                 *)
(***************************************************************************)
\* The files an entry stands for: itself, or all files under the directory.
RECURSIVE FilesUnder(_)
FilesUnder(e) ==
  IF e.isDirectory THEN UNION { FilesUnder(c) : c \in e.children } ELSE {e}

\* C37: every file a real run has removed, the files under a removed
\* directory included, is older than the threshold of its area.
C37_NoYoungFileRemoved ==
  \A k \in RunsAtOneTime : ~runs[k].dryRun =>
    \A a \in Areas :
      \A e \in runs[k].before[a].entries \ runs[k].after[a].entries :
        \A f \in FilesUnder(e) :
          now - f.mtime > MaxAge(a, options.retention)

(***************************************************************************)
(* server.js: sessions                                                     *)
(***************************************************************************)
\* C38: every session a successful upload has stored is evicted in the end,
\* by its timer or by the sweep, whichever comes first; a download of a
\* session that is stored is answered with the stored text, a download of
\* a session that is not stored (evicted, or never given) is answered with
\* 404, and no download changes what is stored.
C38_SessionsEvictedDownloadsAnswered ==
  /\ \A s \in SessionIds :
       (s \in DOMAIN web.results) ~> (s \notin DOMAIN web.results)
  /\ [][web'.last # web.last =>
          /\ web'.results = web.results /\ web'.timers = web.timers
          /\ IF web'.last.id \in DOMAIN web.results
               THEN web'.last.format \in {"txt", "docx"} =>
                      /\ web'.last.status = 200
                      /\ web'.last.body = Body(web.results[web'.last.id].text)
               ELSE web'.last.status = 404]_vars

====
